---- MODULE Spec2Model ----
(***************************************************************************)
(* Expense-Splitter: the ledger-and-settlement engine                      *)
(* (src/src/lib/calculations.ts), the IndexedDB storage layer              *)
(* (src/src/lib/storage.ts) and the page handlers that drive them          *)
(* (src/src/app/page.tsx).                                                 *)
(*                                                                         *)
(* Numbers.  The program computes with IEEE doubles; the model computes    *)
(* the same expressions in exact arithmetic.  A money amount is an integer *)
(* number of units, SubCent units to the cent (so 0.01 is SubCent units    *)
(* and 1.00 is 100 * SubCent units); a percentage is a normalised          *)
(* fraction <<num, den>>.  Math.round(x * 100) / 100 is rounding to the    *)
(* nearest cent, ties towards +infinity.                                   *)
(***************************************************************************)
EXTENDS Integers, Sequences, FiniteSets, TLC

VARIABLES
    groups,           \* groups store: groupId -> [members]
    expenses,         \* expenses store: id -> expense record
    settlements,      \* settlements store: id -> settlement record
    nextId,           \* ids handed out so far (generateId)
    simplifiedDebts,  \* page state: simplifyDebts(calculateBalances(...)) of the selected group
    lastRemoved,      \* page: the member the last completed handleRemoveMember removed
    dme,              \* the deleteMemberExpenses call in progress (storage.ts 256-404)
    dg,               \* the deleteGroup call in progress (storage.ts 163-175)
    settings,         \* settings store: key -> [key, value]
    call,             \* a call of a pure function: its arguments
    result            \* ... and what it returned

vars == <<groups, expenses, settlements, nextId, simplifiedDebts, lastRemoved,
          dme, dg, settings, call, result>>

(***************************************************************************)
(* Bounds of the model.                                                    *)
(***************************************************************************)
SubCent == 4        \* input precision: amounts are multiples of 1/SubCent cent
MaxMembers == 4     \* members of a group / of a calculateExpenseSplits call
MaxTotal == 6       \* small totals, in units
MaxFixed == 3       \* custom fixed values, in units
MaxCustom == 3      \* members of a call with custom (percentage / fixed) values
MaxBalances == 4    \* length of a balance list given to simplifyDebts (one more when closed to zero)
MaxBal == 3         \* a balance is k * scale units, k in -MaxBal..MaxBal
MaxScale == 5       \* ... scale in 1..MaxScale
MaxGroup == 3       \* members of the group whose member is removed
MaxNames == 3       \* names the page's user can add as members
MaxExpenses == 1    \* expenses stored at a time by the page
MaxSettlements == 1 \* settlements stored at a time by the page
MaxBalExpenses == 2 \* expense records passed to calculateBalances
MaxBalSettlements == 1 \* settlement records passed to calculateBalances
MaxCreates == 1     \* createExpense / createSettlement calls beside a deleteGroup
MaxBackup == 1      \* expenses, and settlements, in a store that is backed up
MaxIds == 2         \* records created in a run of the page
MaxSettleMembers == 4  \* members of the group that settles up
MaxLedger == 3      \* settlements in the ledger before the round
MaxDebts == 2       \* debts in the list given to getMemberBalance
MaxDebtAmount == 2  \* largest debt amount, in cents

AllNames == <<"A", "B", "C", "D", "E", "F", "G", "H">>
MemberList(n) == SubSeq(AllNames, 1, n)

(***************************************************************************)
(* Arithmetic.                                                             *)
(***************************************************************************)
Cent == SubCent                 \* 0.01 in units
Money(c) == c * SubCent         \* c cents in units

Abs(x) == IF x < 0 THEN -x ELSE x
Max(a, b) == IF a < b THEN b ELSE a

RECURSIVE GCD(_, _)
GCD(a, b) == IF b = 0 THEN a ELSE GCD(b, a % b)

\* the fraction n/d, normalised (d # 0)
Rat(n, d) ==
    LET s == IF d < 0 THEN -1 ELSE 1
        g == GCD(Abs(n), Abs(d))
    IN  <<(s * n) \div g, (s * d) \div g>>
RInt(k) == <<k, 1>>
RAdd(x, y) ==
    LET g == GCD(x[2], y[2])
    IN  Rat(x[1] * (y[2] \div g) + y[1] * (x[2] \div g), x[2] * (y[2] \div g))
RSub(x, y) == RAdd(x, <<-y[1], y[2]>>)
RMul(x, y) ==
    LET g == GCD(Abs(x[1]), y[2])
        h == GCD(Abs(y[1]), x[2])
    IN  Rat((x[1] \div g) * (y[1] \div h), (x[2] \div h) * (y[2] \div g))
RDiv(x, y) == Rat(x[1] * y[2], x[2] * y[1])
RLess(x, y) == x[1] * y[2] < y[1] * x[2]
RAbs(x) == <<Abs(x[1]), x[2]>>

\* Math.round(q): the nearest integer to n/d (d > 0), ties towards +infinity
MathRound(n, d) == (n \div d) + (IF 2 * (n % d) >= d THEN 1 ELSE 0)

\* Math.round(value * 100) / 100 of the amount n/d units: an amount in whole cents
toRoundedQ(n, d) == Cent * MathRound(n, d * Cent)
toRounded(value) == toRoundedQ(value, 1)
\* Math.round(p * 100) / 100 of a percentage
toRoundedPct(p) ==
    Rat(100 * (p[1] \div p[2]) + MathRound(100 * (p[1] % p[2]), p[2]), 100)

RECURSIVE SumSeq(_)
SumSeq(s) == IF s = <<>> THEN 0 ELSE Head(s) + SumSeq(Tail(s))
RECURSIVE RSumSeq(_)
RSumSeq(s) == IF s = <<>> THEN RInt(0) ELSE RAdd(Head(s), RSumSeq(Tail(s)))

Range(s) == {s[i] : i \in DOMAIN s}
Amounts(splits) == [i \in DOMAIN splits |-> splits[i].amount]
SplitSum(splits) == SumSeq(Amounts(splits))

NoPct == <<>>       \* a split without a percentage field
\* the optional customSplits argument: undefined, or an array
NoCustom == [given |-> FALSE, list |-> <<>>]
Custom(list) == [given |-> TRUE, list |-> list]

(***************************************************************************)
(* calculateExpenseSplits (calculations.ts 173-254).  Returns              *)
(* [ok |-> TRUE, splits |-> ...], or [ok |-> FALSE, ...] where the code    *)
(* throws.                                                                 *)
(***************************************************************************)
Thrown(msg) == [ok |-> FALSE, error |-> msg, splits |-> <<>>]
Returned(splits) == [ok |-> TRUE, error |-> "", splits |-> splits]

calculateEqual(totalAmount, members) ==
    IF Len(members) = 0 THEN Thrown("Cannot split with no members")
    ELSE Returned([i \in 1..Len(members) |->
            [memberId |-> members[i],
             amount |-> toRoundedQ(totalAmount, Len(members)),
             percentage |-> Rat(100, Len(members))]])

CustomValues(list) == [i \in DOMAIN list |-> list[i].value]

calculatePercentage(totalAmount, members, customSplits) ==
    LET list == customSplits.list
    IN  IF ~customSplits.given THEN Thrown("Custom splits required for percentage split")
        ELSE IF Len(list) = 0 THEN Thrown("At least one member must have a percentage")
        ELSE IF \E i \in DOMAIN list : list[i].memberId \notin Range(members)
             THEN Thrown("Member is not in this group")
        ELSE IF RLess(Rat(1, 100), RAbs(RSub(RSumSeq(CustomValues(list)), RInt(100))))
             THEN Thrown("Percentages must sum to 100%")
        ELSE Returned([i \in DOMAIN list |->
                [memberId |-> list[i].memberId,
                 amount |-> toRoundedQ(totalAmount * list[i].value[1], 100 * list[i].value[2]),
                 percentage |-> list[i].value]])

calculateFixed(totalAmount, members, customSplits) ==
    LET list == customSplits.list
    IN  IF ~customSplits.given THEN Thrown("Custom splits required for fixed split")
        ELSE IF Len(list) = 0 THEN Thrown("At least one member must have an amount")
        ELSE IF \E i \in DOMAIN list : list[i].memberId \notin Range(members)
             THEN Thrown("Member is not in this group")
        ELSE IF Abs(SumSeq(CustomValues(list)) - totalAmount) > Cent
             THEN Thrown("Split amounts must equal total")
        ELSE Returned([i \in DOMAIN list |->
                [memberId |-> list[i].memberId,
                 amount |-> toRounded(list[i].value),
                 percentage |-> toRoundedPct(Rat(100 * list[i].value, totalAmount))]])

calculateExpenseSplits(totalAmount, members, splitType, customSplits) ==
    CASE splitType = "equal" -> calculateEqual(totalAmount, members)
      [] splitType = "percentage" -> calculatePercentage(totalAmount, members, customSplits)
      [] splitType = "fixed" -> calculateFixed(totalAmount, members, customSplits)

(***************************************************************************)
(* calculateBalances (calculations.ts 33-68).  `balances` is the           *)
(* Record<string, number>: a function from the member ids seen so far.     *)
(***************************************************************************)
Lookup(balances, m) == IF m \in DOMAIN balances THEN balances[m] ELSE 0   \* balances[m] || 0
CreditOverwrite(balances, m, x) ==
    [k \in DOMAIN balances \cup {m} |-> IF k = m THEN x ELSE balances[k]]
Credit(balances, m, x) ==
    [k \in DOMAIN balances \cup {m} |->
        IF k = m THEN Lookup(balances, m) + x ELSE balances[k]]

RECURSIVE processSplits(_, _)
processSplits(balances, splits) ==
    IF splits = <<>> THEN balances
    ELSE processSplits(Credit(balances, Head(splits).memberId, -Head(splits).amount),
                       Tail(splits))

RECURSIVE processExpenses(_, _)
processExpenses(balances, exps) ==
    IF exps = <<>> THEN balances
    ELSE processExpenses(
            processSplits(Credit(balances, Head(exps).paidBy, Head(exps).amount),
                          Head(exps).splits),
            Tail(exps))

RECURSIVE processSettlements(_, _)
processSettlements(balances, setts) ==
    IF setts = <<>> THEN balances
    ELSE processSettlements(
            Credit(Credit(balances, Head(setts).fromMember, Head(setts).amount),
                   Head(setts).toMember, -Head(setts).amount),
            Tail(setts))

calculateBalances(members, exps, setts) ==
    LET zero == [m \in Range(members) |-> 0]
        balances == processSettlements(processExpenses(zero, exps), setts)
    IN  [i \in DOMAIN members |->
            [memberId |-> members[i], amount |-> Lookup(balances, members[i])]]

(***************************************************************************)
(* simplifyDebts (calculations.ts 80-122).                                 *)
(***************************************************************************)
\* Array.prototype.sort((a, b) => b.amount - a.amount): descending, stable
RECURSIVE InsertDesc(_, _)
InsertDesc(sorted, x) ==
    IF sorted = <<>> THEN <<x>>
    ELSE IF Head(sorted).amount >= x.amount THEN <<Head(sorted)>> \o InsertDesc(Tail(sorted), x)
    ELSE <<x>> \o sorted
Unsorted(s) == s
RECURSIVE SortDesc(_)
SortDesc(s) ==
    IF s = <<>> THEN <<>> ELSE InsertDesc(SortDesc(SubSeq(s, 1, Len(s) - 1)), s[Len(s)])

\* b.amount > 0.01
Creditors(balances) == SortDesc(SelectSeq(balances, LAMBDA b : b.amount > Cent))
\* b.amount < -0.01
Debtors(balances) ==
    LET ds == SelectSeq(balances, LAMBDA b : b.amount < -Cent)
    IN  SortDesc([i \in DOMAIN ds |-> [memberId |-> ds[i].memberId, amount |-> -ds[i].amount]])

\* lines 113-114: creditor.amount -= amount; debtor.amount -= amount
creditorLeftStale(creditor, amount) == creditor.amount
creditorLeft(creditor, amount) == creditor.amount - amount
debtorLeftStale(debtor, amount) == debtor.amount
debtorLeft(debtor, amount) == debtor.amount - amount

\* the while loop, lines 98-119
RECURSIVE matchLoop(_, _, _, _, _, _)
matchLoop(creditors, debtors, cIndex, dIndex, simplified, iterations) ==
    IF ~(cIndex <= Len(creditors) /\ dIndex <= Len(debtors))
    THEN [debts |-> simplified, iterations |-> iterations,
          creditors |-> creditors, debtors |-> debtors,
          cIndex |-> cIndex, dIndex |-> dIndex]
    ELSE LET creditor == creditors[cIndex]
             debtor == debtors[dIndex]
             amount == IF creditor.amount < debtor.amount THEN creditor.amount
                       ELSE debtor.amount
             pushed == IF amount > Cent
                       THEN Append(simplified,
                                [fromMember |-> debtor.memberId,
                                 toMember |-> creditor.memberId,
                                 amount |-> toRounded(amount)])
                       ELSE simplified
             cLeft == creditorLeft(creditor, amount)
             dLeft == debtorLeft(debtor, amount)
         IN  matchLoop([creditors EXCEPT ![cIndex].amount = cLeft],
                       [debtors EXCEPT ![dIndex].amount = dLeft],
                       IF cLeft < Cent THEN cIndex + 1 ELSE cIndex,
                       IF dLeft < Cent THEN dIndex + 1 ELSE dIndex,
                       pushed, iterations + 1)

simplifyRun(balances) == matchLoop(Creditors(balances), Debtors(balances), 1, 1, <<>>, 0)
simplifyDebts(balances) == simplifyRun(balances).debts

(***************************************************************************)
(* getMemberBalance (calculations.ts 127-168).  The debt list argument is  *)
(* a list or is missing (undefined / null).                                *)
(***************************************************************************)

\* lines 141-145, with the fields of the debt exchanged
owesToEntryFrom(debt) ==
    [memberId |-> debt.fromMember, memberName |-> debt.fromMember, amount |-> debt.amount]
\* lines 141-145
owesToEntry(debt) ==
    [memberId |-> debt.toMember, memberName |-> debt.toMember, amount |-> debt.amount]
\* lines 149-153
owedByEntry(debt) ==
    [memberId |-> debt.fromMember, memberName |-> debt.fromMember, amount |-> debt.amount]

\* the forEach of lines 137-155
RECURSIVE memberBalanceLoop(_, _, _)
memberBalanceLoop(memberId, debts, acc) ==
    IF debts = <<>> THEN acc
    ELSE LET debt == Head(debts)
             next ==
                 IF debt.fromMember = memberId
                 THEN [acc EXCEPT !.totalOwed = @ + debt.amount,
                                  !.owesTo = Append(@, owesToEntry(debt))]
                 ELSE IF debt.toMember = memberId
                 THEN [acc EXCEPT !.totalReceivable = @ + debt.amount,
                                  !.owedBy = Append(@, owedByEntry(debt))]
                 ELSE acc
         IN  memberBalanceLoop(memberId, Tail(debts), next)

getMemberBalance(memberId, memberName, debtList) ==
    LET debts == IF debtList.given THEN debtList.list ELSE <<>>    \* simplifiedDebts || []
        acc == memberBalanceLoop(memberId, debts,
                                 [totalOwed |-> 0, totalReceivable |-> 0,
                                  owesTo |-> <<>>, owedBy |-> <<>>])
    IN  [memberId |-> memberId,
         memberName |-> memberName,
         totalOwed |-> acc.totalOwed,
         totalReceivable |-> acc.totalReceivable,
         netBalance |-> acc.totalReceivable - acc.totalOwed,
         owesTo |-> acc.owesTo,
         owedBy |-> acc.owedBy]

(***************************************************************************)
(* The stores (storage.ts 9-58).  A store is a function from the ids it    *)
(* holds to its records; a group's records are read in key order           *)
(* (getAllFromIndex).                                                      *)
(***************************************************************************)
RECURSIVE InKeyOrder(_, _)
InKeyOrder(store, ids) ==
    IF ids = {} THEN <<>>
    ELSE LET k == CHOOSE x \in ids : \A y \in ids : x <= y
         IN  <<store[k]>> \o InKeyOrder(store, ids \ {k})
getAllFromIndex(store, groupId) ==
    InKeyOrder(store, {k \in DOMAIN store : store[k].groupId = groupId})

Put(store, record) ==        \* database.put / database.add
    [k \in DOMAIN store \cup {record.id} |-> IF k = record.id THEN record ELSE store[k]]
Delete(store, id) ==         \* database.delete
    [k \in DOMAIN store \ {id} |-> store[k]]

(***************************************************************************)
(* deleteMemberExpenses: the computation (storage.ts 267-398).             *)
(***************************************************************************)
unfilteredMembers(remainingMembers, memberName) == remainingMembers
normalizedMembersOf(remainingMembers, memberName) ==
    LET Test(m) == m # memberName IN SelectSeq(remainingMembers, Test)

\* "Fix rounding drift on the last member" (lines 281-285, 332-336, 370-374)
keepDrift(total, splits) == splits
fixDrift(total, splits) ==
    LET drift == toRounded(total - SplitSum(splits))
        last == Len(splits)
    IN  IF Len(splits) > 0 /\ Abs(drift) > 0
        THEN [splits EXCEPT ![last].amount = toRounded(splits[last].amount + drift)]
        ELSE splits

buildEqualSplits(total, normalizedMembers) ==
    LET count == Len(normalizedMembers)
        base == toRoundedQ(total, count)
        splits == [i \in 1..count |->
                    [memberId |-> normalizedMembers[i],
                     amount |-> base,
                     percentage |-> toRoundedPct(Rat(100, count))]]
    IN  fixDrift(total, splits)

\* new Map(remainingSplits.map(s => [s.memberId, s])).get(memberId): the last
\* remaining split of the member, or <<>> for undefined
remainingSplitOf(expense, memberName, memberId) ==
    LET hits == {i \in DOMAIN expense.splits :
                    /\ expense.splits[i].memberId # memberName
                    /\ expense.splits[i].memberId = memberId}
    IN  IF hits = {} THEN <<>>
        ELSE <<expense.splits[CHOOSE i \in hits : \A j \in hits : j <= i]>>

\* lines 306-311: the percentages the remaining members hold; line 308 is
\* split?.percentage ?? (split ? (split.amount / expense.amount) * 100 : 0)
percentsOf(expense, memberName, normalizedMembers) ==
    [i \in DOMAIN normalizedMembers |->
        LET found == remainingSplitOf(expense, memberName, normalizedMembers[i])
        IN  IF found = <<>> THEN RInt(0)
            ELSE IF found[1].percentage # NoPct THEN found[1].percentage
            ELSE Rat(100 * found[1].amount, expense.amount)]

\* lines 321-343: re-normalise the percentages to 100 and derive the amounts
renormalizeSplits(expense, memberName, normalizedMembers) ==
    LET percents == percentsOf(expense, memberName, normalizedMembers)
        totalPercent == RSumSeq(percents)
        normalized == [i \in DOMAIN percents |->
                          RDiv(Rat(100 * percents[i][1], percents[i][2]), totalPercent)]
        splits == [i \in DOMAIN normalized |->
                     [memberId |-> normalizedMembers[i],
                      amount |-> LET x == RMul(Rat(expense.amount, 100), normalized[i])
                                 IN  toRoundedQ(x[1], x[2]),
                      percentage |-> toRoundedPct(normalized[i])]]
    IN  fixDrift(expense.amount, splits)

redistributePercentage(expense, memberName, normalizedMembers) ==
    LET totalPercent == RSumSeq(percentsOf(expense, memberName, normalizedMembers))
    IN  IF ~RLess(Rat(1, 100), totalPercent)          \* totalPercent <= 0.01
        THEN buildEqualSplits(expense.amount, normalizedMembers)
        ELSE renormalizeSplits(expense, memberName, normalizedMembers)

redistributeFixed(expense, memberName, normalizedMembers) ==
    LET fixedSplits == [i \in DOMAIN normalizedMembers |->
                          LET found == remainingSplitOf(expense, memberName, normalizedMembers[i])
                          IN  IF found = <<>> THEN 0 ELSE found[1].amount]
        currentTotal == SumSeq(fixedSplits)
    IN  IF currentTotal <= Cent
        THEN buildEqualSplits(expense.amount, normalizedMembers)
        ELSE LET remainingAmount == expense.amount - currentTotal
                 share == toRoundedQ(remainingAmount, Len(normalizedMembers))
                 splits == [i \in DOMAIN fixedSplits |->
                              [memberId |-> normalizedMembers[i],
                               amount |-> toRounded(fixedSplits[i] + share),
                               percentage |-> NoPct]]
             IN  fixDrift(expense.amount, splits)

\* line 292
newPaidByKept(expense, memberName, fallbackPayer) == expense.paidBy
newPaidBy(expense, memberName, fallbackPayer) ==
    IF expense.paidBy = memberName THEN fallbackPayer ELSE expense.paidBy

redistributeExpense(expense, memberName, normalizedMembers, fallbackPayer) ==
    IF Len(normalizedMembers) = 0 THEN expense
    ELSE [expense EXCEPT
            !.paidBy = newPaidBy(expense, memberName, fallbackPayer),
            !.splits =
                CASE expense.splitType = "equal" ->
                        buildEqualSplits(expense.amount, normalizedMembers)
                  [] expense.splitType = "percentage" ->
                        redistributePercentage(expense, memberName, normalizedMembers)
                  [] OTHER ->
                        redistributeFixed(expense, memberName, normalizedMembers)]

\* lines 391-394: the member paid the expense or holds a split in it
InvolvesAnyone(expense, memberName) == TRUE
Involves(expense, memberName) ==
    \/ expense.paidBy = memberName
    \/ \E i \in DOMAIN expense.splits : expense.splits[i].memberId = memberName

\* line 313 compares a sum of doubles with 0.01.  When three or more remaining
\* percentages add up to exactly 0.01, the rounding error of the additions
\* decides the comparison: 0.0002 + 0.0079 + 0.0019 is 0.010000000000000002,
\* which is not <= 0.01, while 0.001 + 0.009 is 0.009999999999999998.
TotalPercentOnEpsilon(expense, memberName, normalizedMembers) ==
    LET percents == percentsOf(expense, memberName, normalizedMembers)
    IN  /\ expense.splitType = "percentage"
        /\ RSumSeq(percents) = Rat(1, 100)
        /\ Cardinality({i \in DOMAIN percents : percents[i] # RInt(0)}) >= 3

\* what a run of redistributeExpense on doubles can produce
redistributeExpenseRuns(expense, memberName, normalizedMembers, fallbackPayer) ==
    {redistributeExpense(expense, memberName, normalizedMembers, fallbackPayer)}
    \cup (IF /\ Len(normalizedMembers) > 0
              /\ TotalPercentOnEpsilon(expense, memberName, normalizedMembers)
          THEN {[expense EXCEPT
                    !.paidBy = newPaidBy(expense, memberName, fallbackPayer),
                    !.splits = renormalizeSplits(expense, memberName, normalizedMembers)]}
          ELSE {})

\* lines 390-398 on doubles
updatedExpensesRuns(groupExpenses, memberName, remainingMembers, fallbackPayer) ==
    LET runs(i) ==
            IF ~Involves(groupExpenses[i], memberName) THEN {groupExpenses[i]}
            ELSE redistributeExpenseRuns(groupExpenses[i], memberName,
                                         normalizedMembersOf(remainingMembers, memberName),
                                         fallbackPayer)
    IN  {u \in [DOMAIN groupExpenses -> UNION {runs(i) : i \in DOMAIN groupExpenses}] :
            \A i \in DOMAIN groupExpenses : u[i] \in runs(i)}

\* lines 386-388
settlementsPaidBy(groupSettlements, memberName) ==
    LET Test(st) == st.fromMember = memberName IN SelectSeq(groupSettlements, Test)
settlementsToDeleteOf(groupSettlements, memberName) ==
    LET Test(st) == st.fromMember = memberName \/ st.toMember = memberName
    IN  SelectSeq(groupSettlements, Test)

(***************************************************************************)
(* State of the parts a specification does not exercise.                   *)
(***************************************************************************)
NotDone == [done |-> FALSE, value |-> <<>>]
Done(v) == [done |-> TRUE, value |-> v]
IdleDg == [pc |-> "idle"]
IdleDme == [pc |-> "idle"]
Group1 == "g1"
Group2 == "g2"

Expense(id, groupId, amount, paidBy, splitType, splits) ==
    [id |-> id, groupId |-> groupId, description |-> "dinner", amount |-> amount,
     date |-> "2024-01-01", paidBy |-> paidBy, splitType |-> splitType,
     splits |-> splits, category |-> "Food"]
Settlement(id, groupId, fromMember, toMember, amount) ==
    [id |-> id, groupId |-> groupId, fromMember |-> fromMember, toMember |-> toMember,
     amount |-> amount, method |-> "cash", date |-> "2024-01-02"]
Group(id, members) == [id |-> id, name |-> id, currency |-> "PKR", members |-> members]

IdleStore ==
    /\ groups = <<>>
    /\ expenses = <<>>
    /\ settlements = <<>>
    /\ nextId = 0
    /\ simplifiedDebts = <<>>
    /\ lastRemoved = ""
    /\ dme = IdleDme
    /\ dg = IdleDg
    /\ settings = <<>>
storeVars ==
    <<groups, expenses, settlements, nextId, simplifiedDebts, lastRemoved, dme, dg, settings>>

(***************************************************************************)
(* SpecSplit: calculateExpenseSplits as a function of its arguments.       *)
(***************************************************************************)

\* the entries of f that are present, in order, as customSplits
RECURSIVE CustomFrom(_, _, _)
CustomFrom(cands, f, absent) ==
    IF cands = <<>> THEN <<>>
    ELSE LET rest == CustomFrom(Tail(cands), [i \in 1..(Len(cands) - 1) |-> f[i + 1]], absent)
         IN  IF f[1] = absent THEN rest
             ELSE <<[memberId |-> Head(cands), value |-> f[1]]>> \o rest

CustomLists(members, vals, absent) ==
    LET cands == members \o <<"Z">>     \* "Z" is a name that is in no member list
    IN  {Custom(CustomFrom(cands, f, absent)) : f \in [1..Len(cands) -> vals \cup {absent}]}
        \cup {NoCustom}

SplitCall(t, members, splitType, customSplits) ==
    [fn |-> "calculateExpenseSplits", totalAmount |-> t, members |-> members,
     splitType |-> splitType, customSplits |-> customSplits]

InitSplit ==
    /\ IdleStore
    /\ result = NotDone
    /\ \E t \in (1..MaxTotal) \cup {Money(2), Money(10000)} :
        \/ \E n \in 0..MaxMembers : call = SplitCall(t, MemberList(n), "equal", NoCustom)
        \/ \E n \in 0..MaxCustom :
              \E c \in CustomLists(MemberList(n),
                      {Rat(k, 100) : k \in {0, 3333, 3334, 5000, 10000}}, <<>>) :
                 call = SplitCall(t, MemberList(n), "percentage", c)
        \/ \E n \in 0..MaxCustom :
              \E c \in CustomLists(MemberList(n), 0..MaxFixed, -1) :
                 call = SplitCall(t, MemberList(n), "fixed", c)

\* lines 211 and 239 compare a sum of doubles with the bound 0.01.  When the
\* exact sum is exactly 0.01 away from its target, the rounding error of the
\* doubles decides the comparison: 33.33 + 33.33 + 33.33 is 99.99 and
\* Math.abs(99.99 - 100) is 0.010000000000005116, which is > 0.01, while
\* 33.33 + 33.33 + 33.35 gives 0.009999999999990905.
SumOnEpsilon(totalAmount, members, splitType, customSplits) ==
    /\ splitType \in {"percentage", "fixed"}
    /\ customSplits.given
    /\ Len(customSplits.list) > 0
    /\ \A i \in DOMAIN customSplits.list : customSplits.list[i].memberId \in Range(members)
    /\ IF splitType = "percentage"
       THEN RAbs(RSub(RSumSeq(CustomValues(customSplits.list)), RInt(100))) = Rat(1, 100)
       ELSE Abs(SumSeq(CustomValues(customSplits.list)) - totalAmount) = Cent

\* what a run of calculateExpenseSplits on doubles can produce
calculateExpenseSplitsRuns(totalAmount, members, splitType, customSplits) ==
    {calculateExpenseSplits(totalAmount, members, splitType, customSplits)}
    \cup (IF SumOnEpsilon(totalAmount, members, splitType, customSplits)
          THEN {Thrown(IF splitType = "percentage" THEN "Percentages must sum to 100%"
                       ELSE "Split amounts must equal total")}
          ELSE {})

CallExpenseSplits ==
    /\ call.fn = "calculateExpenseSplits"
    /\ ~result.done
    /\ \E r \in calculateExpenseSplitsRuns(call.totalAmount, call.members,
                                            call.splitType, call.customSplits) :
          result' = Done(r)
    /\ UNCHANGED <<call, storeVars>>

NextSplit == CallExpenseSplits
SpecSplit == InitSplit /\ [][NextSplit]_vars

(***************************************************************************)
(* SpecBalances: calculateBalances as a function of its arguments.  The    *)
(* records name "A" and "B"; the member list holds both, one or neither.   *)
(***************************************************************************)
BalanceSplit(m, x) == [memberId |-> m, amount |-> x, percentage |-> NoPct]
BalanceSplits ==
    {<<>>}
    \cup {<<BalanceSplit(m, 5)>> : m \in {"A", "B"}}
    \cup {<<BalanceSplit(m, 2), BalanceSplit(n, 3)>> : m \in {"A", "B"}, n \in {"A", "B"}}
BalanceExpenses ==
    {Expense(1, Group1, 5, payer, "fixed", sp) : payer \in {"A", "B"}, sp \in BalanceSplits}
BalanceSettlements ==
    {Settlement(1, Group1, "A", "B", 1), Settlement(1, Group1, "B", "A", 2),
     Settlement(1, Group1, "A", "A", 4)}
\* the sequences over S of length at most n
SeqsUpTo(S, n) == UNION {[1..k -> S] : k \in 0..n}

InitBalances ==
    /\ IdleStore
    /\ result = NotDone
    /\ \E members \in {<<>>, <<"A">>, <<"A", "B">>, <<"B", "A">>},
          exps \in SeqsUpTo(BalanceExpenses, MaxBalExpenses),
          setts \in SeqsUpTo(BalanceSettlements, MaxBalSettlements) :
          call = [fn |-> "calculateBalances", members |-> members,
                  expenses |-> exps, settlements |-> setts]

CallCalculateBalances ==
    /\ call.fn = "calculateBalances"
    /\ ~result.done
    /\ result' = Done(calculateBalances(call.members, call.expenses, call.settlements))
    /\ UNCHANGED <<call, storeVars>>

NextBalances == CallCalculateBalances
SpecBalances == InitBalances /\ [][NextBalances]_vars

(***************************************************************************)
(* SpecSimplify: simplifyDebts as a function of the balance list.          *)
(***************************************************************************)
BalanceList(n, scale, f) ==
    [i \in 1..n |-> [memberId |-> AllNames[i], amount |-> scale * f[i]]]
\* the list with one more member, who takes the balance that makes the sum zero
Closed(balances) ==
    Append(balances, [memberId |-> AllNames[Len(balances) + 1],
                      amount |-> -SumSeq([i \in DOMAIN balances |-> balances[i].amount])])

InitSimplify ==
    /\ IdleStore
    /\ \E n \in 1..MaxBalances, scale \in 1..MaxScale, close \in BOOLEAN :
          \E f \in [1..n -> (-MaxBal)..MaxBal] :
              LET b == BalanceList(n, scale, f)
              IN  call = [fn |-> "simplifyDebts",
                          balances |-> IF close THEN Closed(b) ELSE b]
    /\ result = NotDone

CallSimplifyDebts ==
    /\ call.fn = "simplifyDebts"
    /\ ~result.done
    /\ result' = Done(simplifyRun(call.balances))
    /\ UNCHANGED <<call, storeVars>>

NextSimplify == CallSimplifyDebts
SpecSimplify == InitSimplify /\ [][NextSimplify]_vars

(***************************************************************************)
(* SpecMemberBalance: getMemberBalance as a function of its arguments.     *)
(***************************************************************************)
DebtNames == {"A", "B", "C"}

InitMemberBalance ==
    /\ IdleStore
    /\ result = NotDone
    /\ \E m \in DebtNames,
          d \in {[given |-> FALSE, list |-> <<>>]}
                \cup {[given |-> TRUE, list |-> l] : l \in SeqsUpTo(
                        {[fromMember |-> f, toMember |-> t, amount |-> Money(a)] :
                            f \in DebtNames, t \in DebtNames, a \in 1..MaxDebtAmount},
                        MaxDebts)} :
          call = [fn |-> "getMemberBalance", memberId |-> m, memberName |-> m,
                  simplifiedDebts |-> d]

CallGetMemberBalance ==
    /\ call.fn = "getMemberBalance"
    /\ ~result.done
    /\ result' = Done(getMemberBalance(call.memberId, call.memberName,
                                       call.simplifiedDebts))
    /\ UNCHANGED <<call, storeVars>>

NextMemberBalance == CallGetMemberBalance
SpecMemberBalance == InitMemberBalance /\ [][NextMemberBalance]_vars

(***************************************************************************)
(* deleteMemberExpenses as it runs (storage.ts 256-404).  DmeStart is the  *)
(* two reads and the computation; then every request of the Promise.all    *)
(* (lines 400-403) is a transaction of its own: the puts run in the order  *)
(* they were made, the deletes likewise, the two stores independently; a   *)
(* request may fail, and the run may stop with requests outstanding.       *)
(***************************************************************************)
DmeStart ==
    /\ call.fn = "deleteMemberExpenses"
    /\ dme.pc = "idle"
    /\ LET groupExpenses == getAllFromIndex(expenses, call.groupId)
           groupSettlements == getAllFromIndex(settlements, call.groupId)
           settlementsToDelete == settlementsToDeleteOf(groupSettlements, call.memberName)
       IN  \E updatedExpenses \in updatedExpensesRuns(groupExpenses, call.memberName,
                                                     call.remainingMembers,
                                                     call.fallbackPayer) :
           dme' = [pc |-> "writing",
                   groupExpenses |-> groupExpenses,
                   groupSettlements |-> groupSettlements,
                   updatedExpenses |-> updatedExpenses,
                   settlementsToDelete |-> settlementsToDelete,
                   nextPut |-> 1,
                   nextDelete |-> 1,
                   failed |-> FALSE]
    /\ UNCHANGED <<groups, expenses, settlements, nextId, simplifiedDebts, lastRemoved,
                   dg, settings, call, result>>

\* database.put('expenses', expense) succeeds
DmePut ==
    /\ dme.pc = "writing"
    /\ dme.nextPut <= Len(dme.updatedExpenses)
    /\ expenses' = Put(expenses, dme.updatedExpenses[dme.nextPut])
    /\ dme' = [dme EXCEPT !.nextPut = @ + 1]
    /\ UNCHANGED <<groups, settlements, nextId, simplifiedDebts, lastRemoved, dg, settings, call, result>>

\* database.put('expenses', expense) fails: its promise rejects, nothing is written
DmePutFails ==
    /\ dme.pc = "writing"
    /\ dme.nextPut <= Len(dme.updatedExpenses)
    /\ dme' = [dme EXCEPT !.nextPut = @ + 1, !.failed = TRUE]
    /\ UNCHANGED <<groups, expenses, settlements, nextId, simplifiedDebts, lastRemoved,
                   dg, settings, call, result>>

\* database.delete('settlements', settlement.id) succeeds
DmeDelete ==
    /\ dme.pc = "writing"
    /\ dme.nextDelete <= Len(dme.settlementsToDelete)
    /\ settlements' = Delete(settlements, dme.settlementsToDelete[dme.nextDelete].id)
    /\ dme' = [dme EXCEPT !.nextDelete = @ + 1]
    /\ UNCHANGED <<groups, expenses, nextId, simplifiedDebts, lastRemoved, dg, settings, call, result>>

\* database.delete('settlements', settlement.id) fails
DmeDeleteFails ==
    /\ dme.pc = "writing"
    /\ dme.nextDelete <= Len(dme.settlementsToDelete)
    /\ dme' = [dme EXCEPT !.nextDelete = @ + 1, !.failed = TRUE]
    /\ UNCHANGED <<groups, expenses, settlements, nextId, simplifiedDebts, lastRemoved,
                   dg, settings, call, result>>

\* every request has settled: the Promise.all resolves, or has rejected
DmeReturn ==
    /\ dme.pc = "writing"
    /\ dme.nextPut > Len(dme.updatedExpenses)
    /\ dme.nextDelete > Len(dme.settlementsToDelete)
    /\ dme' = [dme EXCEPT !.pc = IF dme.failed THEN "rejected" ELSE "resolved"]
    /\ UNCHANGED <<groups, expenses, settlements, nextId, simplifiedDebts, lastRemoved,
                   dg, settings, call, result>>

\* the run stops (the page is closed) with requests outstanding
DmeStop ==
    /\ dme.pc = "writing"
    /\ \/ dme.nextPut <= Len(dme.updatedExpenses)
       \/ dme.nextDelete <= Len(dme.settlementsToDelete)
    /\ dme' = [dme EXCEPT !.pc = "stopped"]
    /\ UNCHANGED <<groups, expenses, settlements, nextId, simplifiedDebts, lastRemoved,
                   dg, settings, call, result>>

\* the call has resolved; the caller reads the two stores and makes the same
\* call once more
DmeCallAgain ==
    /\ call.fn = "deleteMemberExpenses"
    /\ dme.pc = "resolved"
    /\ ~result.done
    /\ result' = Done([expenses |-> expenses, settlements |-> settlements])
    /\ dme' = IdleDme
    /\ UNCHANGED <<groups, expenses, settlements, nextId, simplifiedDebts, lastRemoved,
                   dg, settings, call>>

DmeEnded == dme.pc \in {"resolved", "rejected", "stopped"}

(***************************************************************************)
(* SpecStorage: deleteMemberExpenses on a store the page has filled: the   *)
(* expense of group g1 was made by handleAddExpense (its splits are what   *)
(* calculateExpenseSplits returned for the members the group had then),    *)
(* or imported without percentages (importAllData).                        *)
(***************************************************************************)
CustomTotals == {Money(5), Money(100)}

Without(members, memberName) == normalizedMembersOf(members, memberName)

\* the expenses handleAddExpense can have stored, paid by payer, in a group with members M
EqualExpenses(M, payer) ==
    {Expense(1, Group1, t, payer, "equal",
             calculateExpenseSplits(t, MemberList(k), "equal", NoCustom).splits) :
        t \in {Cent + Cent \div 2, Money(5), Money(100)}, k \in 1..Len(M)}
PercentageExpenses(M, payer) ==
    LET made == {[t |-> t, r |-> calculateExpenseSplits(t, M, "percentage", c)] :
                    t \in CustomTotals,
                    c \in CustomLists(M, {Rat(k, 1) : k \in {0, 20, 30, 50, 100}}, <<>>)}
        kept == {x \in made : x.r.ok}
    IN  {Expense(1, Group1, x.t, payer, "percentage", x.r.splits) : x \in kept}
        \cup {Expense(1, Group1, x.t, payer, "percentage",
                      [i \in DOMAIN x.r.splits |->
                          [x.r.splits[i] EXCEPT !.percentage = NoPct]]) :
                x \in {y \in kept : y.t = Money(100)}}
FixedExpenses(M, payer) ==
    LET made == UNION {{[t |-> t, r |-> calculateExpenseSplits(t, M, "fixed", c)] :
                            c \in CustomLists(M, {0, t \div 4, t \div 2, t}, -1)} : t \in CustomTotals}
    IN  {Expense(1, Group1, x.t, payer, "fixed", x.r.splits) : x \in {y \in made : y.r.ok}}
StoredExpenses(M, payer) ==
    EqualExpenses(M, payer) \cup PercentageExpenses(M, payer) \cup FixedExpenses(M, payer)

\* an expense importAllData has stored: an equal split of an amount that is
\* not a whole number of cents, between the first two members, exact to the
\* fraction of a cent
ImportedShare == Cent - Cent \div 4
ImportedExpenses(M, payer) ==
    {Expense(1, Group1, 2 * ImportedShare, payer, "equal",
             [i \in 1..2 |-> [memberId |-> M[i], amount |-> ImportedShare,
                              percentage |-> RInt(50)]])}

\* a Percentage expense of a larger group in which the last member holds 99.99%
\* and the first three hold 0.0002%, 0.0079% and 0.0019% (0.01% together)
TinyExpense(M) ==
    LET n == Len(M)
        tiny == <<Rat(2, 10000), Rat(79, 10000), Rat(19, 10000)>>
        list == [i \in 1..n |->
                    [memberId |-> M[i],
                     value |-> IF i = n THEN Rat(9999, 100)
                               ELSE IF i <= Len(tiny) THEN tiny[i] ELSE RInt(0)]]
    IN  Expense(1, Group1, Money(100), M[n], "percentage",
                calculateExpenseSplits(Money(100), M, "percentage", Custom(list)).splits)

\* a second expense of the group, between its first two members
SecondExpense(M) ==
    Expense(2, Group1, Money(5), M[1], "equal",
            calculateExpenseSplits(Money(5), <<M[1], M[2]>>, "equal", NoCustom).splits)
\* the records of another group
OtherExpense ==
    Expense(3, Group2, Money(7), "A", "equal",
            calculateExpenseSplits(Money(7), <<"A", "B">>, "equal", NoCustom).splits)
OtherSettlement == Settlement(3, Group2, "B", "A", Money(3))

DmeCall(memberName, remainingMembers, fallbackPayer) ==
    [fn |-> "deleteMemberExpenses", groupId |-> Group1, memberName |-> memberName,
     remainingMembers |-> remainingMembers, fallbackPayer |-> fallbackPayer]

\* what the caller passes: the members left (or the whole list, or nothing), and
\* as fallback payer the first member left (or the member being removed)
DmeCalls(M) ==
    UNION {
        {DmeCall(x, Without(M, x), Without(M, x)[1]),
         DmeCall(x, M, Without(M, x)[1]),
         DmeCall(x, <<>>, Without(M, x)[1]),
         DmeCall(x, Without(M, x), x)}
        : x \in Range(M)}

InitStorage ==
    \E n \in 2..(MaxGroup + 1) :
      LET M == MemberList(n) IN
      \E e \in (IF n <= MaxGroup
                THEN StoredExpenses(M, M[n]) \cup ImportedExpenses(M, M[n])
                ELSE {TinyExpense(M)}),
         rest \in {"none", "expense", "settlement", "settlements"},
         c \in DmeCalls(M) :
          /\ groups = (Group1 :> Group(Group1, M)) @@ (Group2 :> Group(Group2, <<"A", "B">>))
          /\ expenses =
                (1 :> e)
                @@ (IF rest = "expense" THEN 2 :> SecondExpense(M) ELSE <<>>)
                @@ (3 :> OtherExpense)
          /\ settlements =
                (IF rest \in {"settlement", "settlements"}
                 THEN 1 :> Settlement(1, Group1, M[n], M[1], Money(1)) ELSE <<>>)
                @@ (IF rest = "settlements"
                    THEN 2 :> Settlement(2, Group1, M[1], M[2], Money(2)) ELSE <<>>)
                @@ (3 :> OtherSettlement)
          /\ nextId = 3
          /\ simplifiedDebts = <<>>
          /\ lastRemoved = ""
          /\ dme = IdleDme
          /\ dg = IdleDg
          /\ settings = <<>>
          /\ call = c
          /\ result = NotDone

NextStorage ==
    \/ DmeStart
    \/ DmePut
    \/ DmePutFails
    \/ DmeDelete
    \/ DmeDeleteFails
    \/ DmeReturn
    \/ DmeStop
    \/ DmeCallAgain
SpecStorage == InitStorage /\ [][NextStorage]_vars

(***************************************************************************)
(* SpecDeleteGroup: deleteGroup (storage.ts 163-175) beside createExpense  *)
(* (193-204) and createSettlement (234-245) calls of the same database.    *)
(* Every await of deleteGroup is a step; each database.delete is a         *)
(* transaction of its own.                                                 *)
(***************************************************************************)
IdsOf(records) == {records[i].id : i \in DOMAIN records}

\* line 166
DgReadExpenses ==
    /\ call.fn = "deleteGroup"
    /\ dg.pc = "idle"
    /\ dg' = [pc |-> "readExpenses",
              expenses |-> IdsOf(getAllFromIndex(expenses, call.id)),
              settlements |-> {},
              before |-> [groups |-> groups, expenses |-> expenses,
                          settlements |-> settlements]]
    /\ UNCHANGED <<groups, expenses, settlements, nextId, simplifiedDebts, lastRemoved,
                   dme, settings, call, result>>

\* line 167
DgReadSettlements ==
    /\ dg.pc = "readExpenses"
    /\ dg' = [dg EXCEPT !.pc = "deleting",
                        !.settlements = IdsOf(getAllFromIndex(settlements, call.id))]
    /\ UNCHANGED <<groups, expenses, settlements, nextId, simplifiedDebts, lastRemoved,
                   dme, settings, call, result>>

\* line 170
DgDeleteExpense ==
    /\ dg.pc = "deleting"
    /\ \E id \in dg.expenses :
          /\ expenses' = Delete(expenses, id)
          /\ dg' = [dg EXCEPT !.expenses = @ \ {id}]
    /\ UNCHANGED <<groups, settlements, nextId, simplifiedDebts, lastRemoved,
                   dme, settings, call, result>>

\* line 171
DgDeleteSettlement ==
    /\ dg.pc = "deleting"
    /\ \E id \in dg.settlements :
          /\ settlements' = Delete(settlements, id)
          /\ dg' = [dg EXCEPT !.settlements = @ \ {id}]
    /\ UNCHANGED <<groups, expenses, nextId, simplifiedDebts, lastRemoved,
                   dme, settings, call, result>>

\* line 174, once Promise.all has resolved
DgDeleteGroup ==
    /\ dg.pc = "deleting"
    /\ dg.expenses = {}
    /\ dg.settlements = {}
    /\ groups' = Delete(groups, call.id)
    /\ dg' = [dg EXCEPT !.pc = "done"]
    /\ result' = Done(<<>>)
    /\ UNCHANGED <<expenses, settlements, nextId, simplifiedDebts, lastRemoved,
                   dme, settings, call>>

DgRunning == dg.pc \in {"readExpenses", "deleting"}
DgFirstId == OtherExpense.id      \* the highest id stored before the call

\* lines 193-204, called while deleteGroup runs
createExpense(groupId) ==
    /\ DgRunning
    /\ nextId < DgFirstId + MaxCreates
    /\ nextId' = nextId + 1
    /\ expenses' = Put(expenses,
                       Expense(nextId + 1, groupId, Money(5), "A", "equal",
                               calculateExpenseSplits(Money(5), <<"A", "B">>, "equal",
                                                      NoCustom).splits))
    /\ UNCHANGED <<groups, settlements, simplifiedDebts, lastRemoved, dme, dg, settings,
                   call, result>>

\* lines 234-245, called while deleteGroup runs
createSettlement(groupId) ==
    /\ DgRunning
    /\ nextId < DgFirstId + MaxCreates
    /\ nextId' = nextId + 1
    /\ settlements' = Put(settlements, Settlement(nextId + 1, groupId, "B", "A", Money(1)))
    /\ UNCHANGED <<groups, expenses, simplifiedDebts, lastRemoved, dme, dg, settings,
                   call, result>>

InitDeleteGroup ==
    \E ne \in 0..2, ns \in 0..2, id \in {Group1, Group2} :
        /\ groups = (Group1 :> Group(Group1, <<"A", "B">>))
                    @@ (Group2 :> Group(Group2, <<"A", "B">>))
        /\ expenses =
              [i \in 1..ne |-> Expense(i, Group1, Money(5), "A", "equal",
                                  calculateExpenseSplits(Money(5), <<"A", "B">>, "equal",
                                                         NoCustom).splits)]
              @@ (3 :> OtherExpense)
        /\ settlements =
              [i \in 1..ns |-> Settlement(i, Group1, "B", "A", Money(i))]
              @@ (3 :> OtherSettlement)
        /\ nextId = DgFirstId
        /\ simplifiedDebts = <<>>
        /\ lastRemoved = ""
        /\ dme = IdleDme
        /\ dg = IdleDg
        /\ settings = <<>>
        /\ call = [fn |-> "deleteGroup", id |-> id]
        /\ result = NotDone

NextDeleteGroup ==
    \/ DgReadExpenses
    \/ DgReadSettlements
    \/ DgDeleteExpense
    \/ DgDeleteSettlement
    \/ DgDeleteGroup
    \/ \E g \in {Group1, Group2} : createExpense(g)
    \/ \E g \in {Group1, Group2} : createSettlement(g)

SpecDeleteGroup == InitDeleteGroup /\ [][NextDeleteGroup]_vars

(***************************************************************************)
(* SpecBackup: exportAllData (storage.ts 410-424) on one store content,    *)
(* the backup carried to a database with another content, and              *)
(* importAllData (426-452) there.                                          *)
(***************************************************************************)
\* lines 108-111: (await database.get('settings', 'username')) || ''
getUsername(store) == IF "username" \in DOMAIN store THEN store["username"] ELSE ""
\* lines 113-116
setUsername(store, name) ==
    [k \in DOMAIN store \cup {"username"} |-> IF k = "username" THEN name ELSE store[k]]

\* database.getAll(store): the records in key order
RECURSIVE getAll(_)
getAll(store) ==
    IF DOMAIN store = {} THEN <<>>
    ELSE LET k == CHOOSE x \in DOMAIN store : \A y \in DOMAIN store : x <= y
         IN  <<store[k]>> \o getAll([z \in DOMAIN store \ {k} |-> store[z]])
getAllGroups(store) ==
    (IF Group1 \in DOMAIN store THEN <<store[Group1]>> ELSE <<>>)
    \o (IF Group2 \in DOMAIN store THEN <<store[Group2]>> ELSE <<>>)

\* lines 410-424 (exportedAt left out)
exportAllData(db) ==
    [settings |-> [username |-> getUsername(db.settings)],
     groups |-> getAllGroups(db.groups),
     expenses |-> getAll(db.expenses),
     settlements |-> getAll(db.settlements)]

\* database.add of every record of an array, into an empty store
RECURSIVE addAll(_, _)
addAll(store, records) ==
    IF records = <<>> THEN store ELSE addAll(Put(store, Head(records)), Tail(records))

\* lines 426-452: the three stores are cleared, the settings store is not
importAllData(db, data) ==
    [settings |-> IF data.settings.username # ""           \* if (data.settings?.username)
                  THEN setUsername(db.settings, data.settings.username)
                  ELSE db.settings,
     groups |-> addAll(<<>>, data.groups),
     expenses |-> addAll(<<>>, data.expenses),
     settlements |-> addAll(<<>>, data.settlements)]

\* a store content: a username (or none), ng groups, ne expenses and ns
\* settlements of the first group, with ids from first on and amount x
NoUsername == "(none)"
Content(u, ng, ne, ns, first, x) ==
    [settings |-> IF u = NoUsername THEN <<>> ELSE ("username" :> u),
     groups |-> [g \in (IF ng >= 1 THEN {Group1} ELSE {}) \cup (IF ng >= 2 THEN {Group2} ELSE {})
                    |-> Group(g, <<"A", "B">>)],
     expenses |-> [i \in first..(first + ne - 1) |->
                     Expense(i, Group1, x, "A", "equal",
                             calculateExpenseSplits(x, <<"A", "B">>, "equal", NoCustom).splits)],
     settlements |-> [i \in first..(first + ns - 1) |->
                        Settlement(i, Group1, "B", "A", x)]]
Contents(first, x) ==
    {Content(u, ng, ne, ns, first, x) :
        u \in {NoUsername, "", "A", "B"}, ng \in 0..2, ne \in 0..MaxBackup, ns \in 0..MaxBackup}
Database == [settings |-> settings, groups |-> groups, expenses |-> expenses,
             settlements |-> settlements]
Holds(db) ==
    /\ settings = db.settings
    /\ groups = db.groups
    /\ expenses = db.expenses
    /\ settlements = db.settlements

InitBackup ==
    /\ \E S \in Contents(1, Money(5)) :
          /\ Holds(S)
          /\ call = [fn |-> "exportAllData", S |-> S]
    /\ nextId = 0
    /\ simplifiedDebts = <<>>
    /\ lastRemoved = ""
    /\ dme = IdleDme
    /\ dg = IdleDg
    /\ result = NotDone

ExportAllData ==
    /\ call.fn = "exportAllData"
    /\ ~result.done
    /\ result' = Done(exportAllData(Database))
    /\ UNCHANGED <<call, storeVars>>

\* the backup file is taken to a database that holds T
OpenOtherDatabase ==
    /\ call.fn = "exportAllData"
    /\ result.done
    /\ \E T \in Contents(3, Money(7)) :
          /\ settings' = T.settings
          /\ groups' = T.groups
          /\ expenses' = T.expenses
          /\ settlements' = T.settlements
    /\ call' = [fn |-> "importAllData", S |-> call.S, data |-> result.value]
    /\ result' = NotDone
    /\ UNCHANGED <<nextId, simplifiedDebts, lastRemoved, dme, dg>>

ImportAllData ==
    /\ call.fn = "importAllData"
    /\ ~result.done
    /\ LET db == importAllData(Database, call.data)
       IN  /\ settings' = db.settings
           /\ groups' = db.groups
           /\ expenses' = db.expenses
           /\ settlements' = db.settlements
    /\ result' = Done(<<>>)
    /\ UNCHANGED <<nextId, simplifiedDebts, lastRemoved, dme, dg, call>>

NextBackup == ExportAllData \/ OpenOtherDatabase \/ ImportAllData
SpecBackup == InitBackup /\ [][NextBackup]_vars

(***************************************************************************)
(* Spec: the page (page.tsx) on the stores.  The user is "A"; the page     *)
(* offers the remove button for every member but the user (line 1451).     *)
(* Every handler ends with the reload and the effect of lines 262-269,     *)
(* which recompute simplifiedDebts.                                        *)
(***************************************************************************)
username == "A"
selectedGroup == groups[Group1]

\* lines 262-269, over the stores as they will be
Recalculated(members, exps, setts) ==
    simplifyDebts(calculateBalances(members, getAllFromIndex(exps, Group1),
                                    getAllFromIndex(setts, Group1)))

PageTotals == {Money(3), Money(10000)}
\* what the expense form can hold as customSplits
FormCustoms(members, splitType, amount) ==
    CASE splitType = "equal" -> {Custom(<<>>)}
      [] splitType = "percentage" ->
            {Custom(<<[memberId |-> members[1], value |-> RInt(100)]>>)}
            \cup (IF Len(members) >= 2
                  THEN {Custom(<<[memberId |-> members[1], value |-> RInt(50)],
                                 [memberId |-> members[2], value |-> RInt(50)]>>),
                        Custom(<<[memberId |-> members[1], value |-> RInt(50)]>>)}
                  ELSE {})
      [] splitType = "fixed" ->
            {Custom(<<[memberId |-> members[Len(members)], value |-> amount]>>)}

Init ==
    /\ groups = <<>>
    /\ expenses = <<>>
    /\ settlements = <<>>
    /\ nextId = 0
    /\ simplifiedDebts = <<>>
    /\ lastRemoved = ""
    /\ dme = IdleDme
    /\ dg = IdleDg
    /\ settings = <<>>
    /\ call = [fn |-> "none"]
    /\ result = NotDone

\* lines 282-298: createGroup({members: [username]})
handleCreateGroup ==
    /\ Group1 \notin DOMAIN groups
    /\ groups' = (Group1 :> Group(Group1, <<username>>))
    /\ UNCHANGED <<expenses, settlements, nextId, simplifiedDebts, lastRemoved,
                   dme, dg, settings, call, result>>

\* lines 320-340
handleAddMember(newMemberName) ==
    /\ Group1 \in DOMAIN groups
    /\ newMemberName \notin Range(selectedGroup.members)
    /\ groups' = [groups EXCEPT ![Group1].members = Append(@, newMemberName)]
    /\ simplifiedDebts' = Recalculated(groups'[Group1].members, expenses, settlements)
    /\ UNCHANGED <<expenses, settlements, nextId, lastRemoved, dme, dg, settings, call, result>>

\* lines 342-357: updateGroup with the member filtered out, and nothing else
removeMemberFromGroup(members, memberName) ==
    LET Kept(m) == m # memberName IN SelectSeq(members, Kept)
handleRemoveMember(memberName) ==
    /\ Group1 \in DOMAIN groups
    /\ Len(selectedGroup.members) > 1
    /\ memberName \in Range(selectedGroup.members)
    /\ memberName # username
    /\ groups' = [groups EXCEPT
                    ![Group1].members = removeMemberFromGroup(@, memberName)]
    /\ lastRemoved' = memberName
    /\ simplifiedDebts' = Recalculated(groups'[Group1].members, expenses, settlements)
    /\ UNCHANGED <<expenses, settlements, nextId, dme, dg, settings, call, result>>

\* lines 359-413
handleAddExpense(amount, paidBy, splitType, customSplits) ==
    /\ Group1 \in DOMAIN groups
    /\ amount > 0
    /\ paidBy \in Range(selectedGroup.members)
    /\ nextId < MaxIds
    /\ Cardinality(DOMAIN expenses) < MaxExpenses
    /\ LET made == calculateExpenseSplits(amount, selectedGroup.members, splitType,
                                          customSplits)
       IN  IF ~made.ok
           THEN UNCHANGED <<expenses, nextId, simplifiedDebts>>     \* toast, return
           ELSE /\ nextId' = nextId + 1
                /\ expenses' = Put(expenses, Expense(nextId + 1, Group1, amount, paidBy,
                                                     splitType, made.splits))
                /\ simplifiedDebts' =
                      Recalculated(selectedGroup.members, expenses', settlements)
    /\ UNCHANGED <<groups, settlements, lastRemoved, dme, dg, settings, call, result>>

\* lines 415-469
handleEditExpense(id, amount, paidBy, splitType, customSplits) ==
    /\ Group1 \in DOMAIN groups
    /\ id \in DOMAIN expenses
    /\ amount > 0
    /\ paidBy \in Range(selectedGroup.members)
    /\ LET made == calculateExpenseSplits(amount, selectedGroup.members, splitType,
                                          customSplits)
       IN  IF ~made.ok
           THEN UNCHANGED <<expenses, simplifiedDebts>>
           ELSE /\ expenses' = [expenses EXCEPT ![id] =
                                   [@ EXCEPT !.amount = amount, !.paidBy = paidBy,
                                             !.splitType = splitType,
                                             !.splits = made.splits]]
                /\ simplifiedDebts' =
                      Recalculated(selectedGroup.members, expenses', settlements)
    /\ UNCHANGED <<groups, settlements, nextId, lastRemoved, dme, dg, settings, call, result>>

\* lines 471-482
handleDeleteExpense(expenseId) ==
    /\ Group1 \in DOMAIN groups
    /\ expenseId \in DOMAIN expenses
    /\ expenses' = Delete(expenses, expenseId)
    /\ simplifiedDebts' = Recalculated(selectedGroup.members, expenses', settlements)
    /\ UNCHANGED <<groups, settlements, nextId, lastRemoved, dme, dg, settings, call, result>>

\* lines 484-523
handleSettle(fromMember, toMember, amount) ==
    /\ Group1 \in DOMAIN groups
    /\ fromMember \in Range(selectedGroup.members)
    /\ toMember \in Range(selectedGroup.members)
    /\ amount > 0
    /\ fromMember # toMember
    /\ nextId < MaxIds
    /\ Cardinality(DOMAIN settlements) < MaxSettlements
    /\ nextId' = nextId + 1
    /\ settlements' = Put(settlements,
                          Settlement(nextId + 1, Group1, fromMember, toMember, amount))
    /\ simplifiedDebts' = Recalculated(selectedGroup.members, expenses, settlements')
    /\ UNCHANGED <<groups, expenses, lastRemoved, dme, dg, settings, call, result>>

\* lines 525-536
handleDeleteSettlement(settlementId) ==
    /\ Group1 \in DOMAIN groups
    /\ settlementId \in DOMAIN settlements
    /\ settlements' = Delete(settlements, settlementId)
    /\ simplifiedDebts' = Recalculated(selectedGroup.members, expenses, settlements')
    /\ UNCHANGED <<groups, expenses, nextId, lastRemoved, dme, dg, settings, call, result>>

PageNames == Range(MemberList(MaxNames))
AddExpense ==
    \E amount \in PageTotals, paidBy \in PageNames,
       splitType \in {"equal", "percentage", "fixed"} :
        /\ Group1 \in DOMAIN groups
        /\ \E customSplits \in FormCustoms(selectedGroup.members, splitType, amount) :
              handleAddExpense(amount, paidBy, splitType, customSplits)
EditExpense ==
    \E id \in 1..MaxIds, amount \in PageTotals, paidBy \in PageNames,
       splitType \in {"equal", "percentage", "fixed"} :
        /\ Group1 \in DOMAIN groups
        /\ \E customSplits \in FormCustoms(selectedGroup.members, splitType, amount) :
              handleEditExpense(id, amount, paidBy, splitType, customSplits)

Next ==
    \/ handleCreateGroup
    \/ \E name \in PageNames : handleAddMember(name)
    \/ \E name \in PageNames : handleRemoveMember(name)
    \/ AddExpense
    \/ EditExpense
    \/ \E id \in 1..MaxIds : handleDeleteExpense(id)
    \/ \E f \in PageNames, t \in PageNames, amount \in {Money(1), Money(3333)} :
          handleSettle(f, t, amount)
    \/ \E id \in 1..MaxIds : handleDeleteSettlement(id)

Spec == Init /\ [][Next]_vars

(***************************************************************************)
(* Claims about calculateExpenseSplits (SpecSplit).                        *)
(***************************************************************************)
SplitReturned ==
    /\ call.fn = "calculateExpenseSplits"
    /\ result.done
    /\ result.value.ok

\* C1: for every total > 0, non-empty member list and policy for which
\* calculateExpenseSplits returns, the returned amounts sum to total within 0.01.
C1_SplitSumWithinCent ==
    (SplitReturned /\ call.totalAmount > 0 /\ Len(call.members) > 0)
        => Abs(SplitSum(result.value.splits) - call.totalAmount) <= Cent

\* C9: in an Equal split over n >= 1 members every member but the last gets
\* round2(total / n) and the last gets round2(total / n) plus the drift
\* total - n * round2(total / n).
C9_EqualDriftOnLast ==
    (SplitReturned /\ call.splitType = "equal" /\ Len(call.members) >= 1)
        => LET n == Len(call.members)
               share == toRoundedQ(call.totalAmount, n)
               drift == call.totalAmount - n * share
           IN  \A i \in 1..n :
                  result.value.splits[i].amount = IF i < n THEN share ELSE share + drift

\* C11: calculateExpenseSplits fails, returning no shares, exactly when the
\* input is invalid: Equal with no members; Percentage or Fixed with custom
\* values missing or empty, with an entry naming a non-member, or with the
\* values summing to more than 0.01 away from the target (100, or the total).
\* Otherwise it returns one share per member (Equal) or per entry.
InvalidSplitInput ==
    IF call.splitType = "equal" THEN Len(call.members) = 0
    ELSE LET list == call.customSplits.list
         IN  \/ ~call.customSplits.given
             \/ Len(list) = 0
             \/ \E i \in DOMAIN list : list[i].memberId \notin Range(call.members)
             \/ IF call.splitType = "percentage"
                THEN RLess(Rat(1, 100), RAbs(RSub(RSumSeq(CustomValues(list)), RInt(100))))
                ELSE Abs(SumSeq(CustomValues(list)) - call.totalAmount) > Cent
C11_FailsExactlyOnInvalidInput ==
    (call.fn = "calculateExpenseSplits" /\ result.done)
        => IF InvalidSplitInput
           THEN ~result.value.ok /\ result.value.splits = <<>>
           ELSE /\ result.value.ok
                /\ [i \in DOMAIN result.value.splits |-> result.value.splits[i].memberId]
                      = IF call.splitType = "equal" THEN call.members
                        ELSE [i \in DOMAIN call.customSplits.list |->
                                call.customSplits.list[i].memberId]

(***************************************************************************)
(* Claims about calculateBalances (SpecBalances).                          *)
(***************************************************************************)
\* what member m paid, owes, sent and received over the records
RECURSIVE PaidBy(_, _)
PaidBy(exps, m) ==
    IF exps = <<>> THEN 0
    ELSE (IF Head(exps).paidBy = m THEN Head(exps).amount ELSE 0) + PaidBy(Tail(exps), m)
RECURSIVE ShareOf(_, _)
ShareOf(splits, m) ==
    IF splits = <<>> THEN 0
    ELSE (IF Head(splits).memberId = m THEN Head(splits).amount ELSE 0)
         + ShareOf(Tail(splits), m)
RECURSIVE SharesOf(_, _)
SharesOf(exps, m) ==
    IF exps = <<>> THEN 0 ELSE ShareOf(Head(exps).splits, m) + SharesOf(Tail(exps), m)
RECURSIVE SettledAs(_, _, _)
SettledAs(setts, field, m) ==
    IF setts = <<>> THEN 0
    ELSE (IF Head(setts)[field] = m THEN Head(setts).amount ELSE 0)
         + SettledAs(Tail(setts), field, m)

\* C12: calculateBalances returns one Balance per member of the input list, in
\* input order, with amount (expenses paid) - (own splits) + (settlements sent)
\* - (settlements received); parties outside the list get no Balance and
\* change no listed member's amount.
C12_BalancePerMember ==
    (call.fn = "calculateBalances" /\ result.done)
        => result.value =
              [i \in DOMAIN call.members |->
                  [memberId |-> call.members[i],
                   amount |-> PaidBy(call.expenses, call.members[i])
                              - SharesOf(call.expenses, call.members[i])
                              + SettledAs(call.settlements, "fromMember", call.members[i])
                              - SettledAs(call.settlements, "toMember", call.members[i])]]

\* C12 witness: two expenses and a settlement, with a payer and a split member
\* outside the member list, and a listed member who paid twice.
C12_Witness ==
    /\ call.fn = "calculateBalances" /\ result.done
    /\ call.members = <<"A">>
    /\ Len(call.expenses) = 2
    /\ Len(call.settlements) = 1
    /\ call.expenses[1].paidBy = "A" /\ call.expenses[2].paidBy = "B"
    /\ \E i \in DOMAIN call.expenses[1].splits : call.expenses[1].splits[i].memberId = "B"
    /\ \E i \in DOMAIN call.expenses[2].splits : call.expenses[2].splits[i].memberId = "A"
    /\ result.value[1].amount # 0

(***************************************************************************)
(* Claims about simplifyDebts (SpecSimplify).                              *)
(***************************************************************************)
SimplifyReturned == call.fn = "simplifyDebts" /\ result.done
BalanceSum(balances) == SumSeq([i \in DOMAIN balances |-> balances[i].amount])
NumCreditors(balances) == Cardinality({i \in DOMAIN balances : balances[i].amount > Cent})
NumDebtors(balances) == Cardinality({i \in DOMAIN balances : balances[i].amount < -Cent})

\* the sum of the amounts of the debts whose field names member m
RECURSIVE DebtSum(_, _, _)
DebtSum(debts, field, m) ==
    IF debts = <<>> THEN 0
    ELSE (IF Head(debts)[field] = m THEN Head(debts).amount ELSE 0)
         + DebtSum(Tail(debts), field, m)

\* member i's balance after every debt is paid as a real transfer
AfterTransfers(balances, debts, i) ==
    balances[i].amount + DebtSum(debts, "fromMember", balances[i].memberId)
                       - DebtSum(debts, "toMember", balances[i].memberId)

\* C3: for a balance list that sums to zero, paying every returned debt leaves
\* every member's balance within 0.01 of zero.
C3_TransfersSettleEveryone ==
    (SimplifyReturned /\ BalanceSum(call.balances) = 0)
        => \A i \in DOMAIN call.balances :
              Abs(AfterTransfers(call.balances, result.value.debts, i)) <= Cent

\* C4 as stated: the number of returned debts is at most
\* max(number of creditors, number of debtors).
C4_AtMostMaxOfSides ==
    SimplifyReturned
        => Len(result.value.debts)
              <= Max(NumCreditors(call.balances), NumDebtors(call.balances))

\* C4 amended: the number of returned debts is at most creditors + debtors - 1
\* when there is at least one creditor and one debtor, and zero otherwise.
C4_AtMostSidesMinusOne ==
    SimplifyReturned
        => LET c == NumCreditors(call.balances)
               d == NumDebtors(call.balances)
           IN  Len(result.value.debts) <= (IF c = 0 \/ d = 0 THEN 0 ELSE c + d - 1)

\* C4 witness: two creditors and two debtors settled with three transfers.
C4_Witness ==
    /\ SimplifyReturned
    /\ NumCreditors(call.balances) = 2
    /\ NumDebtors(call.balances) = 2
    /\ Len(result.value.debts) = 3

\* the fewest transfers that bring every member of a zero-sum list to exactly
\* zero: the members with a non-zero balance, less the largest number of
\* zero-sum groups they can be partitioned into
RECURSIVE SetSum(_, _)
SetSum(balances, S) ==
    IF S = {} THEN 0
    ELSE LET i == CHOOSE x \in S : TRUE
         IN  balances[i].amount + SetSum(balances, S \ {i})
RECURSIVE MaxZeroGroups(_, _)
MaxZeroGroups(balances, S) ==
    IF S = {} THEN 0
    ELSE LET i == CHOOSE x \in S : \A y \in S : x <= y
             groupsOfI == {T \in SUBSET S : i \in T /\ SetSum(balances, T) = 0}
             counts == {1 + MaxZeroGroups(balances, S \ T) : T \in groupsOfI}
         IN  CHOOSE k \in counts : \A j \in counts : j <= k
MinTransfers(balances) ==
    LET nonZero == {i \in DOMAIN balances : balances[i].amount # 0}
    IN  Cardinality(nonZero) - MaxZeroGroups(balances, nonZero)

\* C8: for a balance list that sums to zero, no set of transfers that brings
\* every member to zero has fewer transfers than simplifyDebts returns.
C8_FewestTransfers ==
    (SimplifyReturned /\ BalanceSum(call.balances) = 0)
        => Len(result.value.debts) <= MinTransfers(call.balances)

\* the input balance of member m (0 for a member who is not listed)
InputBalance(m) ==
    IF \E i \in DOMAIN call.balances : call.balances[i].memberId = m
    THEN call.balances[CHOOSE i \in DOMAIN call.balances : call.balances[i].memberId = m].amount
    ELSE 0

\* C15: every SimplifiedDebt returned has an amount greater than 0.01, a
\* fromMember whose input balance is below -0.01 and a toMember whose input
\* balance is above 0.01; a member whose input balance lies in [-0.01, 0.01]
\* appears in no debt.
C15_DebtsAboveEpsilon ==
    SimplifyReturned
        => \A k \in DOMAIN result.value.debts :
              LET debt == result.value.debts[k]
              IN  /\ debt.amount > Cent
                  /\ InputBalance(debt.fromMember) < -Cent
                  /\ InputBalance(debt.toMember) > Cent

\* where member m stands in the input list
InputIndex(m) == CHOOSE i \in DOMAIN call.balances : call.balances[i].memberId = m

\* field is "toMember" with sign 1 (creditors), or "fromMember" with sign -1
InSortedOrder(debts, field, sign) ==
    /\ \A k \in DOMAIN debts : \A l \in DOMAIN debts :
          (k < l /\ debts[k][field] # debts[l][field])
              => LET a == sign * InputBalance(debts[k][field])
                     b == sign * InputBalance(debts[l][field])
                 IN  a > b \/ (a = b /\ InputIndex(debts[k][field]) < InputIndex(debts[l][field]))
    /\ \A k \in DOMAIN debts : \A l \in DOMAIN debts : \A m \in DOMAIN debts :
          (k < l /\ l < m /\ debts[k][field] = debts[m][field])
              => debts[l][field] = debts[k][field]

\* C16: in the returned sequence the toMembers appear in non-increasing order of
\* input balance and the fromMembers in non-increasing order of input debt, the
\* debts of one creditor (and of one debtor) are contiguous, and members of
\* equal magnitude appear in input order.
C16_DebtsInSortedOrder ==
    SimplifyReturned
        => /\ InSortedOrder(result.value.debts, "toMember", 1)
           /\ InSortedOrder(result.value.debts, "fromMember", -1)

\* C16 witness: three debts, the larger creditor listed after the smaller one,
\* and two debtors of equal debt.
C16_Witness ==
    /\ SimplifyReturned
    /\ Len(result.value.debts) >= 3
    /\ \E k \in DOMAIN result.value.debts : \E l \in DOMAIN result.value.debts :
          /\ k < l
          /\ InputIndex(result.value.debts[k].toMember)
                > InputIndex(result.value.debts[l].toMember)
    /\ \E k \in DOMAIN result.value.debts : \E l \in DOMAIN result.value.debts :
          /\ result.value.debts[k].fromMember # result.value.debts[l].fromMember
          /\ InputBalance(result.value.debts[k].fromMember)
                = InputBalance(result.value.debts[l].fromMember)

\* C17: the matching loop runs at most (creditors + debtors - 1) iterations.
C17_AtMostSidesMinusOneIterations ==
    SimplifyReturned
        => result.value.iterations
              <= NumCreditors(call.balances) + NumDebtors(call.balances) - 1

\* C17 amended: the loop does not run when there is no creditor or no debtor;
\* otherwise every iteration advances a cursor, the loop runs at most
\* (creditors + debtors - 1) iterations, and it stops when the first of the two
\* cursors passes the end of its list, the other list being left as it is.
C17_LoopTerminates ==
    SimplifyReturned
        => LET c == NumCreditors(call.balances)
               d == NumDebtors(call.balances)
               r == result.value
           IN  /\ Len(r.creditors) = c /\ Len(r.debtors) = d
               /\ r.cIndex \in 1..(c + 1) /\ r.dIndex \in 1..(d + 1)
               /\ r.cIndex = c + 1 \/ r.dIndex = d + 1
               /\ r.iterations <= (r.cIndex - 1) + (r.dIndex - 1)
               /\ r.iterations >= Max(r.cIndex - 1, r.dIndex - 1)
               /\ IF c = 0 \/ d = 0 THEN r.iterations = 0
                  ELSE r.iterations <= c + d - 1
               /\ \A i \in r.cIndex..c : i > r.cIndex => r.creditors[i] = Creditors(call.balances)[i]
               /\ \A i \in r.dIndex..d : i > r.dIndex => r.debtors[i] = Debtors(call.balances)[i]

\* C17 witness: two creditors and two debtors, and the loop ran the three
\* iterations the bound allows.
C17_Witness ==
    /\ SimplifyReturned
    /\ NumCreditors(call.balances) = 2
    /\ NumDebtors(call.balances) = 2
    /\ result.value.iterations = 3
    /\ result.value.cIndex = 3
    /\ result.value.dIndex = 3

\* the members of the input list
InputMembers == {call.balances[i].memberId : i \in DOMAIN call.balances}
\* what member m pays and receives over the returned debts
PaysOut(m) == DebtSum(result.value.debts, "fromMember", m)
Receives(m) == DebtSum(result.value.debts, "toMember", m)
\* every input balance is a whole number of cents
WholeCents == \A i \in DOMAIN call.balances : call.balances[i].amount % Cent = 0

\* C28 as stated: the amounts of the returned debts a member pays sum to at
\* most the member's input debt, and the amounts of the returned debts a
\* member receives sum to at most the member's input credit.
C28_NoOverpayment ==
    SimplifyReturned
        => \A m \in InputMembers :
              /\ PaysOut(m) <= Max(0, -InputBalance(m))
              /\ Receives(m) <= Max(0, InputBalance(m))

\* C28 amended: as C28, for input balances that are whole numbers of cents.
C28_NoOverpaymentOfCents ==
    (SimplifyReturned /\ WholeCents)
        => \A m \in InputMembers :
              /\ PaysOut(m) <= Max(0, -InputBalance(m))
              /\ Receives(m) <= Max(0, InputBalance(m))

\* C28 witness: with balances in whole cents, a creditor is paid by two
\* debtors, each paying its whole debt, and receives less than its credit.
C28_Witness ==
    /\ SimplifyReturned
    /\ WholeCents
    /\ Len(result.value.debts) = 2
    /\ \E c \in InputMembers :
          /\ Receives(c) > 0
          /\ Receives(c) < InputBalance(c)
          /\ \A k \in DOMAIN result.value.debts :
                LET debt == result.value.debts[k]
                IN  /\ debt.toMember = c
                    /\ PaysOut(debt.fromMember) = -InputBalance(debt.fromMember)
          /\ result.value.debts[1].fromMember # result.value.debts[2].fromMember

\* C29: no returned debt is from a member to itself, no member pays one
\* returned debt and receives another, and no two returned debts have the same
\* fromMember and toMember.
C29_DebtsBipartite ==
    SimplifyReturned
        => LET debts == result.value.debts
           IN  /\ \A k \in DOMAIN debts : debts[k].fromMember # debts[k].toMember
               /\ \A k \in DOMAIN debts : \A l \in DOMAIN debts :
                     debts[k].fromMember # debts[l].toMember
               /\ \A k \in DOMAIN debts : \A l \in DOMAIN debts :
                     (debts[k].fromMember = debts[l].fromMember
                      /\ debts[k].toMember = debts[l].toMember) => k = l

\* C29 witness: three debts among two creditors and two debtors, one debtor
\* paying both creditors and one creditor paid by both debtors.
C29_Witness ==
    /\ SimplifyReturned
    /\ Len(result.value.debts) = 3
    /\ result.value.debts[1].toMember = result.value.debts[2].toMember
    /\ result.value.debts[2].fromMember = result.value.debts[3].fromMember
    /\ result.value.debts[1].fromMember # result.value.debts[2].fromMember
    /\ result.value.debts[2].toMember # result.value.debts[3].toMember

(***************************************************************************)
(* Claims about getMemberBalance (SpecMemberBalance).                      *)
(***************************************************************************)
\* the debt list of the call, a missing one being empty
GivenDebts == IF call.simplifiedDebts.given THEN call.simplifiedDebts.list ELSE <<>>
DebtsFrom(m) == LET Test(d) == d.fromMember = m IN SelectSeq(GivenDebts, Test)
DebtsTo(m) == LET Test(d) == d.toMember = m IN SelectSeq(GivenDebts, Test)
DebtsFromOthersTo(m) ==
    LET Test(d) == d.toMember = m /\ d.fromMember # m IN SelectSeq(GivenDebts, Test)
DebtAmounts(debts) == SumSeq([i \in DOMAIN debts |-> debts[i].amount])
\* the counterparties and amounts of the debts, in sequence order
Counterparties(debts, field) ==
    [i \in DOMAIN debts |->
        [memberId |-> debts[i][field], memberName |-> debts[i][field],
         amount |-> debts[i].amount]]
MemberBalanceReturned == call.fn = "getMemberBalance" /\ result.done

WrittenBack(i) == expenses[dme.groupExpenses[i].id]

\* C5 as stated: for any expense record and any removed member, the expense
\* written back has splits that sum to the original amount within 0.01, and the
\* removed member is neither its paidBy nor the memberId of any of its splits.
C5_RedistributionPreservesTotals ==
    dme.pc = "resolved"
        => \A i \in DOMAIN dme.groupExpenses :
              /\ Abs(SplitSum(WrittenBack(i).splits) - dme.groupExpenses[i].amount) <= Cent
              /\ ~Involves(WrittenBack(i), call.memberName)

\* the calls on which the redistribution can remove the member: somebody
\* remains, and the fallback payer is not the member being removed
DmeCanRemove ==
    /\ Len(normalizedMembersOf(call.remainingMembers, call.memberName)) > 0
    /\ call.fallbackPayer # call.memberName

\* C5 amended: when the remaining list without the removed member is not empty
\* and the fallback payer is not the removed member, every expense the removed
\* member paid or holds a split in is written back with splits that sum to the
\* original amount within 0.01 and without the removed member as paidBy or
\* split member; every other expense is written back unchanged.
C5_RedistributionWhenSomeoneRemains ==
    (dme.pc = "resolved" /\ DmeCanRemove)
        => \A i \in DOMAIN dme.groupExpenses :
              IF Involves(dme.groupExpenses[i], call.memberName)
              THEN /\ Abs(SplitSum(WrittenBack(i).splits) - dme.groupExpenses[i].amount)
                        <= Cent
                   /\ ~Involves(WrittenBack(i), call.memberName)
              ELSE WrittenBack(i) = dme.groupExpenses[i]

\* C5 witness: an expense the removed member paid and shared in has been
\* rewritten, with a sum that is not exactly the amount.
C5_Witness ==
    /\ dme.pc = "resolved"
    /\ DmeCanRemove
    /\ \E i \in DOMAIN dme.groupExpenses :
          /\ dme.groupExpenses[i].paidBy = call.memberName
          /\ \E k \in DOMAIN dme.groupExpenses[i].splits :
                dme.groupExpenses[i].splits[k].memberId = call.memberName
          /\ WrittenBack(i) # dme.groupExpenses[i]
          /\ SplitSum(WrittenBack(i).splits) # dme.groupExpenses[i].amount

AllApplied ==
    /\ \A i \in DOMAIN dme.updatedExpenses :
          /\ dme.updatedExpenses[i].id \in DOMAIN expenses
          /\ expenses[dme.updatedExpenses[i].id] = dme.updatedExpenses[i]
    /\ \A j \in DOMAIN dme.settlementsToDelete :
          dme.settlementsToDelete[j].id \notin DOMAIN settlements
NoneApplied ==
    /\ \A i \in DOMAIN dme.groupExpenses :
          /\ dme.groupExpenses[i].id \in DOMAIN expenses
          /\ expenses[dme.groupExpenses[i].id] = dme.groupExpenses[i]
    /\ \A j \in DOMAIN dme.settlementsToDelete :
          /\ dme.settlementsToDelete[j].id \in DOMAIN settlements
          /\ settlements[dme.settlementsToDelete[j].id] = dme.settlementsToDelete[j]

\* C7: the writes of one member removal are atomic: however the run ends (a put
\* or delete failed, or the run stopped between writes), the store holds either
\* all the rewritten expenses and settlement deletions or none of them.
C7_AllOrNothing == DmeEnded => (AllApplied \/ NoneApplied)


\* the remaining members the redistribution works over
DmeRemaining == normalizedMembersOf(call.remainingMembers, call.memberName)
\* the expenses of the call with the given policy that involve the removed member
DmeInvolved(splitType) ==
    {i \in DOMAIN dme.groupExpenses :
        /\ dme.groupExpenses[i].splitType = splitType
        /\ Involves(dme.groupExpenses[i], call.memberName)}

\* C18: for an Equal expense that involves the removed member, the splits
\* written back are exactly what calculateExpenseSplits returns for the
\* original amount over the remaining members with policy equal, amounts and
\* percentages alike.
C18_EqualAsAllocator ==
    (dme.pc = "resolved" /\ Len(DmeRemaining) > 0)
        => \A i \in DmeInvolved("equal") :
              WrittenBack(i).splits =
                  calculateExpenseSplits(dme.groupExpenses[i].amount, DmeRemaining,
                                         "equal", NoCustom).splits

\* the split the original expense holds for member m, or <<>>
OriginalSplit(expense, m) ==
    LET hits == {k \in DOMAIN expense.splits : expense.splits[k].memberId = m}
    IN  IF hits = {} THEN <<>> ELSE <<expense.splits[CHOOSE k \in hits : TRUE]>>
\* the original percentage of member m: the stored one, else the one its amount
\* amounts to, else 0
OriginalPct(expense, m) ==
    LET sp == OriginalSplit(expense, m)
    IN  IF sp = <<>> THEN RInt(0)
        ELSE IF sp[1].percentage # NoPct THEN sp[1].percentage
        ELSE Rat(100 * sp[1].amount, expense.amount)
RemainingPctSum(expense) ==
    RSumSeq([k \in DOMAIN DmeRemaining |-> OriginalPct(expense, DmeRemaining[k])])
\* p_i / (sum of remaining p) * 100
Renormalized(expense, m) ==
    LET pm == OriginalPct(expense, m)
    IN  RDiv(Rat(100 * pm[1], pm[2]), RemainingPctSum(expense))
RenormalizedAmount(expense, m) ==
    LET q == Renormalized(expense, m)
        x == RMul(Rat(expense.amount, 100), q)
    IN  toRoundedQ(x[1], x[2])
RenormalizedSum(expense) ==
    SumSeq([k \in DOMAIN DmeRemaining |-> RenormalizedAmount(expense, DmeRemaining[k])])
\* the Percentage expenses of the call that are re-normalised
DmeRenormalized ==
    {i \in DmeInvolved("percentage") :
        RLess(Rat(1, 100), RemainingPctSum(dme.groupExpenses[i]))}

\* C19: for a Percentage expense that involves the removed member and whose
\* remaining percentages sum to more than 0.01, each remaining member gets the
\* percentage p_i / (sum of remaining p) * 100 and the amount
\* round2(total * that percentage / 100), and the drift total - sum(amounts)
\* is added to the last remaining member only.
C19_PercentageRenormalized ==
    (dme.pc = "resolved" /\ Len(DmeRemaining) > 0)
        => \A i \in DmeRenormalized :
              LET e == dme.groupExpenses[i]
                  n == Len(DmeRemaining)
              IN  WrittenBack(i).splits =
                    [k \in 1..n |->
                        [memberId |-> DmeRemaining[k],
                         amount |-> RenormalizedAmount(e, DmeRemaining[k])
                                    + (IF k = n THEN e.amount - RenormalizedSum(e) ELSE 0),
                         percentage |-> Renormalized(e, DmeRemaining[k])]]

\* C19 amended: as C19, but the percentage stored is round2 of
\* p_i / (sum of remaining p) * 100 (the amount is computed from the unrounded
\* one), and the drift added to the last member is round2(total - sum(amounts)),
\* the last amount being rounded again.
C19_PercentageRenormalizedRounded ==
    (dme.pc = "resolved" /\ Len(DmeRemaining) > 0)
        => \A i \in DmeRenormalized :
              LET e == dme.groupExpenses[i]
                  n == Len(DmeRemaining)
                  drift == toRounded(e.amount - RenormalizedSum(e))
              IN  WrittenBack(i).splits =
                    [k \in 1..n |->
                        [memberId |-> DmeRemaining[k],
                         amount |-> IF k = n
                                    THEN toRounded(RenormalizedAmount(e, DmeRemaining[k]) + drift)
                                    ELSE RenormalizedAmount(e, DmeRemaining[k]),
                         percentage |-> toRoundedPct(Renormalized(e, DmeRemaining[k]))]]

\* C19 witness: a re-normalised expense over two remaining members whose new
\* percentages are not multiples of 0.01 and are stored rounded.
C19_Witness ==
    /\ dme.pc = "resolved"
    /\ Len(DmeRemaining) = 2
    /\ \E i \in DmeRenormalized :
          LET e == dme.groupExpenses[i]
              q == Renormalized(e, DmeRemaining[1])
          IN  /\ q # toRoundedPct(q)
              /\ WrittenBack(i).splits[1].percentage = toRoundedPct(q)
              /\ SplitSum(WrittenBack(i).splits) = e.amount

\* the original fixed amount of member m (0 without a share)
OriginalAmount(expense, m) ==
    LET sp == OriginalSplit(expense, m) IN IF sp = <<>> THEN 0 ELSE sp[1].amount
RemainingFixedSum(expense) ==
    SumSeq([k \in DOMAIN DmeRemaining |-> OriginalAmount(expense, DmeRemaining[k])])
\* round2(original amount + round2((total - remainingSum) / count))
SpreadAmount(expense, m) ==
    toRounded(OriginalAmount(expense, m)
              + toRoundedQ(expense.amount - RemainingFixedSum(expense), Len(DmeRemaining)))
SpreadSum(expense) ==
    SumSeq([k \in DOMAIN DmeRemaining |-> SpreadAmount(expense, DmeRemaining[k])])
\* the Fixed expenses of the call whose remaining amounts are spread
DmeSpread ==
    {i \in DmeInvolved("fixed") : RemainingFixedSum(dme.groupExpenses[i]) > Cent}

DmeCarryNothing ==
    {i \in DmeInvolved("percentage") :
        ~RLess(Rat(1, 100), RemainingPctSum(dme.groupExpenses[i]))}
    \cup {i \in DmeInvolved("fixed") : RemainingFixedSum(dme.groupExpenses[i]) <= Cent}

\* C21: when the remaining members of an affected Percentage expense hold
\* percentages that sum to 0.01 or less, or those of an affected Fixed expense
\* hold amounts that sum to 0.01 or less, the splits written back are those of
\* the Equal redistribution of the original amount over the remaining members.
C21_FallsBackToEqual ==
    (dme.pc = "resolved" /\ Len(DmeRemaining) > 0)
        => \A i \in DmeCarryNothing :
              WrittenBack(i).splits =
                  buildEqualSplits(dme.groupExpenses[i].amount, DmeRemaining)

\* the member is the payer of the expense or the member of one of its splits
PaidOrShares(expense, m) == expense.paidBy = m \/ OriginalSplit(expense, m) # <<>>

\* C22: every step of deleteMemberExpenses keeps the set of expense records;
\* a record it changes belongs to the group of the call and has the removed
\* member as paidBy or in a split, differs from what it was in paidBy and
\* splits only, and is one of the fully redistributed records; so expenses
\* without the removed member and the records of other groups stay identical.
C22_ExpenseFrame ==
    [][/\ DOMAIN expenses' = DOMAIN expenses
       /\ \A k \in DOMAIN expenses :
             expenses'[k] # expenses[k]
                 => /\ expenses[k].groupId = call.groupId
                    /\ PaidOrShares(expenses[k], call.memberName)
                    /\ [expenses'[k] EXCEPT !.paidBy = expenses[k].paidBy,
                                            !.splits = expenses[k].splits] = expenses[k]
                    /\ \E i \in DOMAIN dme.updatedExpenses :
                          expenses'[k] = dme.updatedExpenses[i]]_vars

\* C22 witness: the run is over; an expense with the removed member has been
\* rewritten while an expense of the group without that member and the
\* expense of the other group are stored as they were.
C22_Witness ==
    /\ dme.pc = "resolved"
    /\ \E i, j \in DOMAIN dme.groupExpenses :
          /\ PaidOrShares(dme.groupExpenses[i], call.memberName)
          /\ WrittenBack(i) # dme.groupExpenses[i]
          /\ WrittenBack(i).amount = dme.groupExpenses[i].amount
          /\ ~PaidOrShares(dme.groupExpenses[j], call.memberName)
          /\ WrittenBack(j) = dme.groupExpenses[j]
    /\ expenses[OtherExpense.id] = OtherExpense

\* the settlement has the member as payer or as receiver
Party(st, m) == st.fromMember = m \/ st.toMember = m

\* C23: once deleteMemberExpenses has completed, no settlement of the group
\* with the removed member as fromMember or toMember is stored, every
\* settlement of the group between two other members is stored as it was,
\* and so is the settlement of the other group.
C23_SettlementsOfMemberDeleted ==
    dme.pc = "resolved"
        => /\ \A k \in DOMAIN settlements :
                 ~(settlements[k].groupId = call.groupId
                   /\ Party(settlements[k], call.memberName))
           /\ \A j \in DOMAIN dme.groupSettlements :
                 LET st == dme.groupSettlements[j]
                 IN  ~Party(st, call.memberName)
                        => st.id \in DOMAIN settlements /\ settlements[st.id] = st
           /\ OtherSettlement.id \in DOMAIN settlements
           /\ settlements[OtherSettlement.id] = OtherSettlement

\* C23 witness: the run is over; the group had a settlement received by the
\* removed member, now gone, and one between two other members, still there;
\* the other group's settlement has the removed member as a party.
C23_Witness ==
    /\ dme.pc = "resolved"
    /\ \E i, j \in DOMAIN dme.groupSettlements :
          /\ dme.groupSettlements[i].toMember = call.memberName
          /\ dme.groupSettlements[i].id \notin DOMAIN settlements
          /\ ~Party(dme.groupSettlements[j], call.memberName)
          /\ dme.groupSettlements[j].id \in DOMAIN settlements
    /\ Party(OtherSettlement, call.memberName)

\* the expenses of the call that the removed member paid or shares in
DmeAffected ==
    {i \in DOMAIN dme.groupExpenses : PaidOrShares(dme.groupExpenses[i], call.memberName)}
\* paidBy as the claim gives it: the fallback payer for an expense the removed
\* member paid, the original payer otherwise
PayerAfter(expense) ==
    IF expense.paidBy = call.memberName THEN call.fallbackPayer ELSE expense.paidBy

\* C24 as stated: every affected expense is written back with paidBy equal to
\* fallbackPayer if the removed member paid it, and with its paidBy unchanged
\* otherwise.
C24_PayerReassigned ==
    dme.pc = "resolved"
        => \A i \in DmeAffected : WrittenBack(i).paidBy = PayerAfter(dme.groupExpenses[i])

\* C24 amended: as C24, for calls whose remaining list without the removed
\* member is not empty.
C24_PayerReassignedWhenSomeoneRemains ==
    (dme.pc = "resolved" /\ Len(DmeRemaining) > 0)
        => \A i \in DmeAffected : WrittenBack(i).paidBy = PayerAfter(dme.groupExpenses[i])

\* C24 witness: one expense paid by the removed member now has the fallback
\* payer, another that the member only shared in is rewritten with its payer
\* kept.
C24_Witness ==
    /\ dme.pc = "resolved"
    /\ Len(DmeRemaining) > 0
    /\ call.fallbackPayer # call.memberName
    /\ \E i, j \in DmeAffected :
          /\ dme.groupExpenses[i].paidBy = call.memberName
          /\ WrittenBack(i).paidBy = call.fallbackPayer
          /\ dme.groupExpenses[j].paidBy # call.memberName
          /\ WrittenBack(j) # dme.groupExpenses[j]
          /\ WrittenBack(j).paidBy = dme.groupExpenses[j].paidBy

\* the members of the expense: its payer and the members of its splits
MembersOf(expense) ==
    {expense.paidBy} \cup {expense.splits[k].memberId : k \in DOMAIN expense.splits}
\* the ledger the call read is closed over the group's members and every
\* expense's splits sum exactly to its amount
DmeLedgerClosed ==
    LET members == Range(groups[call.groupId].members)
    IN  /\ \A i \in DOMAIN dme.groupExpenses :
              /\ MembersOf(dme.groupExpenses[i]) \subseteq members
              /\ SplitSum(dme.groupExpenses[i].splits) = dme.groupExpenses[i].amount
        /\ \A j \in DOMAIN dme.groupSettlements :
              {dme.groupSettlements[j].fromMember, dme.groupSettlements[j].toMember}
                  \subseteq members
\* the call removes a member of the group, passes the other members as the
\* remaining list, and names one of them as fallback payer
DmeRemovesToRemaining ==
    /\ Len(DmeRemaining) > 0
    /\ Range(DmeRemaining) = Range(groups[call.groupId].members) \ {call.memberName}
    /\ call.fallbackPayer \in Range(DmeRemaining)

\* C27: for a closed ledger whose expenses' splits sum exactly to their
\* amounts, once deleteMemberExpenses has removed a member with a non-empty
\* remaining list and a fallback payer in it, every expense's payer and split
\* members are remaining members, every affected expense has exactly one
\* split per remaining member, and the balances of the remaining members sum
\* to exactly zero.
C27_LedgerClosedAfterRemoval ==
    (dme.pc = "resolved" /\ DmeRemovesToRemaining /\ DmeLedgerClosed)
        => LET exps == getAllFromIndex(expenses, call.groupId)
               setts == getAllFromIndex(settlements, call.groupId)
               balances == calculateBalances(DmeRemaining, exps, setts)
           IN  /\ \A i \in DOMAIN exps : MembersOf(exps[i]) \subseteq Range(DmeRemaining)
               /\ \A i \in DmeAffected :
                     /\ Len(WrittenBack(i).splits) = Len(DmeRemaining)
                     /\ \A m \in Range(DmeRemaining) :
                           Cardinality({k \in DOMAIN WrittenBack(i).splits :
                                           WrittenBack(i).splits[k].memberId = m}) = 1
               /\ SumSeq([i \in DOMAIN balances |-> balances[i].amount]) = 0

\* every amount of the ledger the call read is a whole number of cents
DmeWholeCents ==
    \A i \in DOMAIN dme.groupExpenses :
        /\ dme.groupExpenses[i].amount % Cent = 0
        /\ \A k \in DOMAIN dme.groupExpenses[i].splits :
              dme.groupExpenses[i].splits[k].amount % Cent = 0

\* C27 amended: as C27, for ledgers whose expense amounts and split amounts
\* are whole numbers of cents.
C27_LedgerOfCentsClosedAfterRemoval ==
    (dme.pc = "resolved" /\ DmeRemovesToRemaining /\ DmeLedgerClosed /\ DmeWholeCents)
        => LET exps == getAllFromIndex(expenses, call.groupId)
               setts == getAllFromIndex(settlements, call.groupId)
               balances == calculateBalances(DmeRemaining, exps, setts)
           IN  /\ \A i \in DOMAIN exps : MembersOf(exps[i]) \subseteq Range(DmeRemaining)
               /\ \A i \in DmeAffected :
                     /\ Len(WrittenBack(i).splits) = Len(DmeRemaining)
                     /\ \A m \in Range(DmeRemaining) :
                           Cardinality({k \in DOMAIN WrittenBack(i).splits :
                                           WrittenBack(i).splits[k].memberId = m}) = 1
               /\ SumSeq([i \in DOMAIN balances |-> balances[i].amount]) = 0

\* C27 witness: the removed member paid an expense and was party to a
\* settlement; the expense now stored was rewritten for two remaining members
\* with unequal amounts, a settlement between them remains, and their
\* balances are not all zero.
C27_Witness ==
    /\ dme.pc = "resolved"
    /\ DmeRemovesToRemaining
    /\ DmeLedgerClosed
    /\ DmeWholeCents
    /\ Len(DmeRemaining) = 2
    /\ Len(dme.settlementsToDelete) > 0
    /\ \E k \in DOMAIN settlements : settlements[k].groupId = call.groupId
    /\ \E i \in DmeAffected :
          /\ dme.groupExpenses[i].paidBy = call.memberName
          /\ WrittenBack(i).splits[1].amount # WrittenBack(i).splits[2].amount
    /\ \E b \in Range(calculateBalances(DmeRemaining,
                                          getAllFromIndex(expenses, call.groupId),
                                          getAllFromIndex(settlements, call.groupId))) :
          b.amount # 0

\* C30: with a non-empty remaining list and a fallback payer other than the
\* removed member, a second run of deleteMemberExpenses with the same
\* arguments leaves every expense and settlement as the first run left it,
\* at each of its steps and when it has returned.
C30_SecondRunChangesNothing ==
    (result.done /\ Len(call.remainingMembers) > 0 /\ call.fallbackPayer # call.memberName)
        => /\ expenses = result.value.expenses
           /\ settlements = result.value.settlements

\* C30 witness: the second run has resolved: it read expenses that no longer
\* hold the removed member, one of them paid by the fallback payer with two
\* splits, and put every one of them again; a settlement of the group is
\* still stored beside the other group's.
C30_Witness ==
    /\ result.done
    /\ dme.pc = "resolved"
    /\ Len(call.remainingMembers) > 0
    /\ call.fallbackPayer # call.memberName
    /\ Len(dme.updatedExpenses) > 0
    /\ dme.nextPut > Len(dme.updatedExpenses)
    /\ \A i \in DOMAIN dme.groupExpenses :
          ~PaidOrShares(dme.groupExpenses[i], call.memberName)
    /\ \E i \in DOMAIN dme.groupExpenses :
          Len(dme.groupExpenses[i].splits) = 2
          /\ dme.groupExpenses[i].paidBy = call.fallbackPayer
    /\ Cardinality(DOMAIN settlements) = 2

(***************************************************************************)
(* Claims about the page on the stores (Spec).                             *)
(***************************************************************************)
GroupExpenses == getAllFromIndex(expenses, Group1)
PageBalances ==
    calculateBalances(selectedGroup.members, GroupExpenses,
                      getAllFromIndex(settlements, Group1))

\* C2: the balances calculateBalances returns for the group's members over the
\* group's stored expenses and settlements sum to 0 within 0.01.
C2_BalancesSumToZero ==
    Group1 \in DOMAIN groups => Abs(BalanceSum(PageBalances)) <= Cent

\* C6: when handleRemoveMember removes a member from the group, then once it has
\* completed no stored expense of the group has the member as paidBy or as a split
\* memberId, and no stored settlement has the member as fromMember or toMember.
Orphaned(exps, setts, memberName) ==
    \/ \E id \in DOMAIN exps : Involves(exps[id], memberName)
    \/ \E id \in DOMAIN setts :
          memberName \in {setts[id].fromMember, setts[id].toMember}
C6_RemovalLeavesNoOrphans ==
    [][\A memberName \in PageNames :
          handleRemoveMember(memberName) => ~Orphaned(expenses', settlements', memberName)]_vars

\* C10: with members [A,B,C], one expense of 100 paid by A split equally and no
\* settlements, the shares are A:33.33, B:33.33, C:33.34, the balances are
\* A:+66.67, B:-33.33, C:-33.34, and the simplified debts are exactly
\* [B->A 33.33, C->A 33.34].
WorkedExample ==
    /\ Group1 \in DOMAIN groups
    /\ selectedGroup.members = <<"A", "B", "C">>
    /\ settlements = <<>>
    /\ Len(GroupExpenses) = 1
    /\ GroupExpenses[1].amount = Money(10000)
    /\ GroupExpenses[1].paidBy = "A"
    /\ GroupExpenses[1].splitType = "equal"
    /\ Len(GroupExpenses[1].splits) = 3
C10_WorkedExample ==
    WorkedExample =>
        /\ Amounts(GroupExpenses[1].splits) = <<Money(3333), Money(3333), Money(3334)>>
        /\ PageBalances = <<[memberId |-> "A", amount |-> Money(6667)],
                            [memberId |-> "B", amount |-> -Money(3333)],
                            [memberId |-> "C", amount |-> -Money(3334)]>>
        /\ simplifiedDebts =
              <<[fromMember |-> "B", toMember |-> "A", amount |-> Money(3333)],
                [fromMember |-> "C", toMember |-> "A", amount |-> Money(3334)]>>


(***************************************************************************)
(* Claims about deleteGroup (SpecDeleteGroup).                             *)
(***************************************************************************)
OfGroup(store, groupId) == {id \in DOMAIN store : store[id].groupId = groupId}

\* C13: after deleteGroup(id) completes, no group has that id and no expense or
\* settlement has it as groupId, records created during the call included; the
\* groups, expenses and settlements of other groups are as they were.
C13_DeleteGroupLeavesNothing ==
    dg.pc = "done"
        => /\ call.id \notin DOMAIN groups
           /\ OfGroup(expenses, call.id) = {}
           /\ OfGroup(settlements, call.id) = {}
           /\ \A g \in DOMAIN dg.before.groups \ {call.id} :
                 /\ g \in DOMAIN groups /\ groups[g] = dg.before.groups[g]
                 /\ \A e \in OfGroup(dg.before.expenses, g) :
                       e \in DOMAIN expenses /\ expenses[e] = dg.before.expenses[e]
                 /\ \A t \in OfGroup(dg.before.settlements, g) :
                       t \in DOMAIN settlements
                       /\ settlements[t] = dg.before.settlements[t]


(***************************************************************************)
(* Claims about exportAllData and importAllData (SpecBackup).              *)
(***************************************************************************)
\* C14: after importAllData(exportAllData() taken on S) has run on a store
\* holding T, the username, groups, expenses and settlements equal those of S.
C14_BackupRestores ==
    (call.fn = "importAllData" /\ result.done)
        => /\ getUsername(settings) = getUsername(call.S.settings)
           /\ groups = call.S.groups
           /\ expenses = call.S.expenses
           /\ settlements = call.S.settlements


(***************************************************************************)
(* SpecSettleUp: the debts the page shows (page.tsx 262-269) are recorded  *)
(* one after the other as settlements (handleSettle, 484-523), each        *)
(* followed by the reload and recalculation of loadGroupData.  The ledger  *)
(* the round starts from holds settlements of whole and fractional cents   *)
(* and possibly an equal expense, and its balances sum to zero.            *)
(***************************************************************************)
LedgerSettlements(M) ==
    UNION {{[fromMember |-> f, toMember |-> t, amount |-> a] :
                t \in Range(M) \ {f}, a \in {1, Cent, Cent + 1}} : f \in Range(M)}
LedgerExpenses(M) ==
    {<<>>}
    \cup {1 :> Expense(1, Group1, t, M[1], "equal",
                       calculateExpenseSplits(t, M, "equal", NoCustom).splits) :
             t \in {Money(1), Money(Len(M))}}
LedgerStore(l) ==
    [i \in DOMAIN l |-> Settlement(i, Group1, l[i].fromMember, l[i].toMember, l[i].amount)]

InitSettleUp ==
    \E n \in 2..MaxSettleMembers :
      LET M == MemberList(n) IN
      \E exps \in LedgerExpenses(M), l \in SeqsUpTo(LedgerSettlements(M), MaxLedger) :
        LET balances == calculateBalances(M, getAllFromIndex(exps, Group1), LedgerStore(l))
            debts == Recalculated(M, exps, LedgerStore(l))
        IN  /\ SumSeq([i \in DOMAIN balances |-> balances[i].amount]) = 0
            /\ groups = (Group1 :> Group(Group1, M))
            /\ expenses = exps
            /\ settlements = LedgerStore(l)
            /\ nextId = Len(l)
            /\ simplifiedDebts = debts
            /\ lastRemoved = ""
            /\ dme = IdleDme
            /\ dg = IdleDg
            /\ settings = <<>>
            /\ call = [fn |-> "settleUp", debts |-> debts, next |-> 1]
            /\ result = NotDone

\* handleSettle for the next debt of the list the round started from
SettleDebt ==
    /\ call.fn = "settleUp"
    /\ call.next <= Len(call.debts)
    /\ LET debt == call.debts[call.next]
       IN  /\ nextId' = nextId + 1
           /\ settlements' = Put(settlements,
                                 Settlement(nextId + 1, Group1, debt.fromMember,
                                            debt.toMember, debt.amount))
           /\ simplifiedDebts' = Recalculated(selectedGroup.members, expenses, settlements')
    /\ call' = [call EXCEPT !.next = @ + 1]
    /\ UNCHANGED <<groups, expenses, lastRemoved, dme, dg, settings, result>>

NextSettleUp == SettleDebt
SpecSettleUp == InitSettleUp /\ [][NextSettleUp]_vars

\* every debt of the round has been recorded
SettledUp == call.fn = "settleUp" /\ call.next > Len(call.debts)

\* C26: once every debt returned for a ledger whose balances sum to zero has
\* been recorded as a settlement from its fromMember to its toMember of the
\* same amount, the recalculation over the extended ledger returns no debts.
C26_SettlingUpConverges == SettledUp => simplifiedDebts = <<>>

=============================================================================
